---- MODULE Spec2Model ----
(***************************************************************************)
(* Model of the curvilinear polygon editor (PolygonItem and the Polygon    *)
(* it edits).  The polygon is a cyclic list of vertices and a parallel     *)
(* list of edges (Line, Bezier, Arc); vertices carry a continuity class,   *)
(* edges a constraint.  Every public operation of PolygonItem is one       *)
(* action.                                                                 *)
(*                                                                         *)
(* Numbers.  The program computes in floating point.  Here a coordinate    *)
(* is an integer (one scene unit) and every arithmetic result is rounded   *)
(* to the nearest integer; a unit vector is kept in fixed point with       *)
(* UnitScale parts per unit.  A length "< 1e-8" in the code is the length  *)
(* 0 here.                                                                 *)
(***************************************************************************)
EXTENDS Integers, Sequences, FiniteSets, TLC

(***************************************************************************)
(* Bounds of the model.                                                    *)
(***************************************************************************)
\* largest number of vertices the polygon grows to (add_vertex_on_edge is
\* not called beyond it)
MaxVertices == 4

\* number of calls in a run that edits structure and continuity only
MaxCalls == 4

\* number of calls in a run that also sets constraints or drags vertices
MaxConstraintCalls == 3

\* number of calls explored where a whole polygon gets constrained before a
\* vertex is dragged
MaxWalkCalls == 4

\* number of calls explored where Bezier handles are dragged
MaxDragCalls == 3

\* number of times _enforce_edge_constraint is called in a row on one edge
MaxEnforceCalls == 2

\* largest offset between the endpoints of the edge it is called on
MaxOffset == 30

\* number of calls explored on a polygon that starts with two Bezier edges
MaxSmoothCalls == 3

\* largest coordinate of the endpoints handed to bresenham
MaxGrid == 3

\* number of bresenham calls in a row on one pair of endpoints
MaxDrawCalls == 2

\* number of calls of the arc solver in a row on one polygon
MaxArcCalls == 2

(***************************************************************************)
(* Program constants.                                                      *)
(***************************************************************************)
\* delete_vertex keeps at least this many vertices ("if n > 3")
MinVertices == 3

\* fixed-point scale of unit vectors
UnitScale == 100

VertexIds == 1..MaxVertices

EdgeTypes == {"LINE", "BEZIER", "ARC"}
ConstraintTypes == {"NONE", "VERTICAL", "DIAGONAL_45", "FIXED_LENGTH"}
ContinuityTypes == {"G0", "G1", "C1"}

\* Python's None for a point, a number, a unit vector
NoPoint == <<>>
NoValue == -1
NoEdge == 0

\* an Edge object that polygon.edges no longer holds
Replaced == -1

(***************************************************************************)
(* Arithmetic                                                              *)
(***************************************************************************)
Abs(a) == IF a < 0 THEN -a ELSE a

Max(a, b) == IF a >= b THEN a ELSE b

\* a / b rounded to the nearest integer (b # 0), halves away from zero
RoundDiv(a, b) ==
    LET n == IF b < 0 THEN -a ELSE a
        d == Abs(b)
    IN  IF n >= 0 THEN (2 * n + d) \div (2 * d)
        ELSE -((2 * (-n) + d) \div (2 * d))

\* floor of the square root, by bisection
RECURSIVE SqrtBetween(_, _, _)
SqrtBetween(n, lo, hi) ==
    IF lo >= hi THEN lo
    ELSE LET mid == (lo + hi + 1) \div 2
         IN  IF mid * mid <= n THEN SqrtBetween(n, mid, hi)
             ELSE SqrtBetween(n, lo, mid - 1)

\* r or r + 1, whichever is nearer to the square root of n, for r its floor
NearerRoot(n, r) == IF n - r * r > r THEN r + 1 ELSE r

\* the square root of n rounded to the nearest integer
RoundSqrt(n) == NearerRoot(n, SqrtBetween(n, 0, 46340))

\* math.hypot(x, y)
Hypot(x, y) == RoundSqrt(x * x + y * y)

\* A direction whose components are too large to square is first scaled
\* down; its unit vector is unchanged up to rounding.
Shrink(x, y) ==
    LET m == Max(Abs(x), Abs(y))
    IN  IF m <= 20000 THEN <<x, y>>
        ELSE LET k == (m \div 10000) + 1
             IN  <<RoundDiv(x, k), RoundDiv(y, k)>>

\* "(x / l, y / l)", and None for "l < 1e-8"
Direction(s, l) ==
    IF l = 0 THEN NoPoint
    ELSE <<RoundDiv(s[1] * UnitScale, l), RoundDiv(s[2] * UnitScale, l)>>

\* "l = math.hypot(x, y)" and the quotient
Normalized(s) == Direction(s, Hypot(s[1], s[2]))

\* geometry.unit: the unit vector of (x, y), in fixed point, or None
unit(x, y) == Normalized(Shrink(x, y))

rot90_ccw(v) == <<-v[2], v[1]>>

rot90_cw(v) == <<v[2], -v[1]>>

\* u * len for a fixed-point unit vector u
Scaled(u, len) == <<RoundDiv(u[1] * len, UnitScale), RoundDiv(u[2] * len, UnitScale)>>

\* (a / c) * b as the code computes it, rounded once
MulDiv(a, b, c) == RoundDiv(a * b, c)

(***************************************************************************)
(* The polygon: model.Polygon, model.Vertex, model.Edge                    *)
(***************************************************************************)
VARIABLES
    vertices,       \* polygon.vertices: the vertex objects, in cyclic order
    edges,          \* polygon.edges: the edge objects, in cyclic order
    pos,            \* pos[v] = <<v.x, v.y>> of vertex object v
    cont,           \* cont[v] = v.continuity
    edges_dict,     \* polygon.edges_dict: endpoint pair -> index of the edge
    last_continuity_warning,  \* PolygonItem.last_continuity_warning is set
    call,           \* the call that produced this state, and what it returned
    ncalls          \* the number of calls made so far

vars == <<vertices, edges, pos, cont, edges_dict, last_continuity_warning,
          call, ncalls>>

\* Vertex(x, y): a new vertex requests no continuity
NewContinuity == "G0"

\* Edge(v1, v2): a Line without constraint
Edge(v1, v2) ==
    [v1 |-> v1, v2 |-> v2, type |-> "LINE", constraint_type |-> "NONE",
     constraint_value |-> NoValue, c1 |-> NoPoint, c2 |-> NoPoint]

\* Bezier(v1, v2, c1, c2)
Bezier(v1, v2, c1, c2) ==
    [v1 |-> v1, v2 |-> v2, type |-> "BEZIER", constraint_type |-> "NONE",
     constraint_value |-> NoValue, c1 |-> c1, c2 |-> c2]

\* Arc(v1, v2)
Arc(v1, v2) ==
    [v1 |-> v1, v2 |-> v2, type |-> "ARC", constraint_type |-> "NONE",
     constraint_value |-> NoValue, c1 |-> NoPoint, c2 |-> NoPoint]

\* The editable part of the program state, as one value.  While one user
\* action is served, "calls" collects the handlers that are entered and
\* updating_from_parent is PolygonItem's flag of that name; between user
\* actions the flag is down.
Polygon ==
    [vertices |-> vertices, edges |-> edges, pos |-> pos, cont |-> cont,
     edges_dict |-> edges_dict, warning |-> last_continuity_warning,
     updating_from_parent |-> FALSE, calls |-> <<>>]

\* list.index(x): the first position of x (1-based), 0 when absent
IndexOf(seq, x) ==
    IF \E i \in 1..Len(seq) : seq[i] = x
    THEN CHOOSE i \in 1..Len(seq) : seq[i] = x /\ \A j \in 1..(i - 1) : seq[j] # x
    ELSE 0

\* the first position whose element satisfies Test, 0 when none
FirstIndex(seq, Test(_)) ==
    IF \E i \in 1..Len(seq) : Test(seq[i])
    THEN CHOOSE i \in 1..Len(seq) : Test(seq[i]) /\ \A j \in 1..(i - 1) : ~Test(seq[j])
    ELSE 0

\* positions i-1 and i+1 in a cyclic list of n elements (1-based)
CycPrev(i, n) == IF i = 1 THEN n ELSE i - 1

CycNext(i, n) == IF i = n THEN 1 ELSE i + 1

\* a variant of list.insert that puts x at the end of the list
InsertLast(seq, i, x) == Append(seq, x)

InsertAt(seq, i, x) == SubSeq(seq, 1, i - 1) \o <<x>> \o SubSeq(seq, i, Len(seq))

RemoveAt(seq, i) == SubSeq(seq, 1, i - 1) \o SubSeq(seq, i + 1, Len(seq))

\* a vertex object not in the polygon
FreshVertex(vs) == CHOOSE v \in VertexIds : \A i \in 1..Len(vs) : vs[i] # v

\* _sync_edges_dict: both orientations of every edge, a later edge winning
SyncedDict(es) ==
    LET pairs == {<<es[i].v1, es[i].v2>> : i \in 1..Len(es)}
                 \cup {<<es[i].v2, es[i].v1>> : i \in 1..Len(es)}
        Holds(i, p) == p = <<es[i].v1, es[i].v2>> \/ p = <<es[i].v2, es[i].v1>>
    IN  [p \in pairs |->
            CHOOSE i \in 1..Len(es) :
                Holds(i, p) /\ \A j \in (i + 1)..Len(es) : ~Holds(j, p)]

\* a variant of _sync_edges_dict that leaves the table as it is
KeepEdgesDict(P) == P

_sync_edges_dict(P) == [P EXCEPT !.edges_dict = SyncedDict(P.edges)]

\* The table holds references to Edge objects, shown here by the object's
\* position in polygon.edges.  What a table that is not rebuilt holds after
\* the list has changed: "edges[i] = new_edge" leaves the entries of the old
\* object pointing to an object that is no longer in the list,
DictAfterPut(d, i) == [p \in DOMAIN d |-> IF d[p] = i THEN Replaced ELSE d[p]]

\* "edges.insert(i, e)" moves the objects from position i on by one,
DictAfterInsert(d, i) ==
    [p \in DOMAIN d |-> IF d[p] >= i THEN d[p] + 1 ELSE d[p]]

\* and "del edges[i]" drops one object and moves the later ones back
DictAfterDel(d, i) ==
    [p \in DOMAIN d |-> IF d[p] = i THEN Replaced
                        ELSE IF d[p] > i THEN d[p] - 1 ELSE d[p]]

\* "for del_edge_index in reversed(edge_indices[1:]): del edges[...]"
RECURSIVE DictAfterDelAll(_, _)
DictAfterDelAll(d, indices) ==
    IF indices = <<>> THEN d
    ELSE DictAfterDelAll(DictAfterDel(d, indices[Len(indices)]),
                         SubSeq(indices, 1, Len(indices) - 1))

\* _edge_between: the index of the edge found for (a, b), NoEdge for None
_edge_between(P, a, b) ==
    IF <<a, b>> \in DOMAIN P.edges_dict THEN P.edges_dict[<<a, b>>]
    ELSE IF <<b, a>> \in DOMAIN P.edges_dict THEN P.edges_dict[<<b, a>>]
    ELSE NoEdge

\* adjacent_edges_of_vertex: <<prev_idx, next_idx>>, NoEdge for None
adjacent_edges_of_vertex(P, vertex) ==
    LET es == P.edges
        n == Len(P.vertices)
        EndsHere(e) == e.v2 = vertex
        StartsHere(e) == e.v1 = vertex
        prev_found == FirstIndex(es, EndsHere)
        next_found == FirstIndex(es, StartsHere)
        idx == IndexOf(P.vertices, vertex)
        infer_prev_idx == CycPrev(idx, n)
        infer_next_idx == idx
    IN  IF idx = 0 \/ Len(es) = 0 THEN <<NoEdge, NoEdge>>
        ELSE << IF prev_found # NoEdge THEN prev_found
                ELSE IF infer_prev_idx <= Len(es) THEN infer_prev_idx ELSE NoEdge,
                IF next_found # NoEdge THEN next_found
                ELSE IF infer_next_idx <= Len(es) THEN infer_next_idx ELSE NoEdge >>

(***************************************************************************)
(* The view: items, setPos and the itemChange callbacks                    *)
(***************************************************************************)
\* a handler of PolygonItem or BezierEdgeItem is entered
Entered(P, handler) == [P EXCEPT !.calls = Append(@, handler)]

\* a variant of itemChange that informs the parent whatever its flag says
InformsAlways(P, updating, handler) == Entered(P, handler)

\* VertexItem.itemChange and ControlPointItem.itemChange after a setPos:
\* "if not parent.updating_from_parent: parent.<handler>(...)".  Every setPos
\* is taken to change the item's position; of the handler that would run,
\* its entry is recorded.
itemChange(P, updating, handler) ==
    IF updating THEN P ELSE Entered(P, handler)

\* BezierEdgeItem._place_control_handles: the edge item raises its own flag
\* around the setPos of its two handles
_place_control_handles(P) ==
    itemChange(itemChange(P, TRUE, "on_control_moved"), TRUE, "on_control_moved")

\* update_edge of the item of edges[i]; only a BezierEdgeItem has handles
update_edge(P, i) ==
    IF P.edges[i].type = "BEZIER" THEN _place_control_handles(P) ELSE P

\* "for e_item in self.edge_items: e_item.update_edge()"
RECURSIVE UpdateEdgesFrom(_, _)
UpdateEdgesFrom(P, i) ==
    IF i > Len(P.edges) THEN P
    ELSE UpdateEdgesFrom(update_edge(P, i), i + 1)

\* "for v, v_item in self.vertex_items.items(): v_item.setPos(...)"
RECURSIVE SetPosFrom(_, _)
SetPosFrom(P, k) ==
    IF k > Len(P.vertices) THEN P
    ELSE SetPosFrom(itemChange(P, P.updating_from_parent, "on_vertex_moved"),
                    k + 1)

\* "self.updating_from_parent = True; try: ... finally:
\* self.updating_from_parent = False" around the setPos of the vertex items
SetPosUnderFlag(P) ==
    [SetPosFrom([P EXCEPT !.updating_from_parent = TRUE], 1)
        EXCEPT !.updating_from_parent = FALSE]

\* "Updating the visuals" of on_vertex_moved
UpdateVisuals(P) == UpdateEdgesFrom(SetPosUnderFlag(P), 1)

(***************************************************************************)
(* Continuity                                                              *)
(***************************************************************************)
Sub(a, b) == <<a[1] - b[1], a[2] - b[2]>>

Add(a, b) == <<a[1] + b[1], a[2] + b[2]>>

Dot(a, b) == a[1] * b[1] + a[2] * b[2]

\* neighbour_tangent_for_arc (local to _arc_tangent_at_vertex): the unit
\* direction of the neighbouring edge at the arc's endpoint
neighbour_tangent_for_arc(P, idx, at_v1_local) ==
    LET es == P.edges
        n_edges == Len(es)
        arc == es[idx]
    IN  IF at_v1_local
        THEN LET ne == es[CycPrev(idx, n_edges)]
                 vertex == arc.v1
                 along == IF ne.v2 = vertex
                          THEN Sub(P.pos[vertex], P.pos[ne.v1])
                          ELSE Sub(P.pos[ne.v2], P.pos[vertex])
                 d == IF ne.type = "BEZIER" THEN Sub(P.pos[vertex], ne.c2) ELSE along
             IN  unit(d[1], d[2])
        ELSE LET ne == es[CycNext(idx, n_edges)]
                 vertex == arc.v2
                 along == IF ne.v1 = vertex
                          THEN Sub(P.pos[ne.v2], P.pos[vertex])
                          ELSE Sub(P.pos[vertex], P.pos[ne.v1])
                 d == IF ne.type = "BEZIER" THEN Sub(ne.c1, P.pos[vertex]) ELSE along
             IN  unit(d[1], d[2])

\* the tangent of the circle at X: the radius from the doubled centre C2,
\* turned a quarter, counter-clockwise or clockwise as the arc runs
TangentOfRadius(r_u, prefer_ccw) ==
    IF r_u = NoPoint THEN NoPoint
    ELSE IF prefer_ccw THEN rot90_ccw(r_u)
    ELSE <<-rot90_ccw(r_u)[1], -rot90_ccw(r_u)[2]>>

\* "prefer_ccw": the orientation whose tangent at the G1 endpoint agrees
\* with the neighbour's direction t
PrefersCcw(rP_u, t) ==
    IF rP_u # NoPoint
    THEN Dot(rot90_ccw(rP_u), t) >= Dot(rot90_cw(rP_u), t)
    ELSE TRUE

\* the tangent at X of the arc whose doubled centre is C2; "solved" when
\* the centre came from the G1 endpoint Pt with direction t
ArcTangentAround(C2, X, Pt, t, solved) ==
    TangentOfRadius(
        unit(2 * X[1] - C2[1], 2 * X[2] - C2[2]),
        IF solved
        THEN PrefersCcw(unit(2 * Pt[1] - C2[1], 2 * Pt[2] - C2[2]), t)
        ELSE TRUE)

\* the arc through p1 and p2 that leaves its G1 endpoint Pt along t: the
\* centre is where the normal at Pt meets the chord's bisector; a semicircle
\* on the chord when there is no G1 endpoint or the lines are parallel
ArcTangentWith(p1, p2, X, Pt, chord_u, t) ==
    LET M2 == Add(p1, p2)
        nc == rot90_ccw(chord_u)
        nt == rot90_ccw(t)
        m2 == Sub(M2, <<2 * Pt[1], 2 * Pt[2]>>)
        det == nt[1] * (-nc[2]) - nt[2] * (-nc[1])
        s2num == m2[1] * (-nc[2]) - m2[2] * (-nc[1])
    IN  IF chord_u = NoPoint THEN NoPoint
        ELSE IF t # NoPoint /\ det # 0
        THEN ArcTangentAround(<<2 * Pt[1] + RoundDiv(s2num * nt[1], det),
                                2 * Pt[2] + RoundDiv(s2num * nt[2], det)>>,
                              X, Pt, t, TRUE)
        ELSE ArcTangentAround(M2, X, Pt, t, FALSE)

\* _arc_tangent_at_vertex: the arc's unit tangent at v1 or v2, or None.
\* The centre is kept doubled (C2 = 2 * C) so that the chord midpoint is exact.
_arc_tangent_at_vertex(P, idx, at_v1) ==
    LET arc == P.edges[idx]
        p1 == P.pos[arc.v1]
        p2 == P.pos[arc.v2]
        g1_v1 == P.cont[arc.v1] = "G1"
        g1_v2 == P.cont[arc.v2] = "G1" /\ ~g1_v1
    IN  IF arc.type # "ARC" THEN NoPoint
        ELSE ArcTangentWith(
                 p1, p2,
                 IF at_v1 THEN p1 ELSE p2,
                 IF g1_v1 THEN p1 ELSE p2,
                 unit(p2[1] - p1[1], p2[2] - p1[2]),
                 IF g1_v1 THEN neighbour_tangent_for_arc(P, idx, TRUE)
                 ELSE IF g1_v2 THEN neighbour_tangent_for_arc(P, idx, FALSE)
                 ELSE NoPoint)

SetC1(P, i, p) == [P EXCEPT !.edges[i].c1 = p]

SetC2(P, i, p) == [P EXCEPT !.edges[i].c2 = p]

\* Case B1 and Case C1: the handle at distance len from the vertex, against
\* (c2) or along (c1) the arc's tangent t
AgainstTangent(v, t, len) == IF t = NoPoint THEN NoPoint ELSE Sub(v, Scaled(t, len))

AlongTangent(v, t, len) == IF t = NoPoint THEN NoPoint ELSE Add(v, Scaled(t, len))

\* a handle is written only when there is a place to write it to
PutC1(P, i, p) == IF p = NoPoint THEN P ELSE SetC1(P, i, p)

PutC2(P, i, p) == IF p = NoPoint THEN P ELSE SetC2(P, i, p)

\* the body of enforce_vertex_continuity_from_vertex, with its locals:
\* v the vertex position, c its continuity, prev_len = |v - prev.c2| and
\* next_len = |next.c1 - v| (of a Bezier neighbour), l_len the length of the
\* Line or Arc chord on the other side
EnforceHandles(P, prev_idx, next_idx, v, c, prev_len, next_len, l_len) ==
    LET prev_edge == P.edges[prev_idx]
        next_edge == P.edges[next_idx]
        prev_is_bezier == prev_edge.type = "BEZIER"
        next_is_bezier == next_edge.type = "BEZIER"
        pv == Sub(v, prev_edge.c2)
        nv == Sub(next_edge.c1, v)
    IN  IF prev_is_bezier /\ next_is_bezier THEN
            \* Case A
            IF c = "G1" THEN
                IF prev_len > 0
                THEN SetC2(SetC1(P, next_idx,
                                 <<v[1] + MulDiv(pv[1], next_len, prev_len),
                                   v[2] + MulDiv(pv[2], next_len, prev_len)>>),
                           prev_idx,
                           <<v[1] - MulDiv(pv[1], prev_len, prev_len),
                             v[2] - MulDiv(pv[2], prev_len, prev_len)>>)
                ELSE IF next_len > 0
                THEN SetC2(P, prev_idx,
                           <<v[1] - MulDiv(nv[1], prev_len, next_len),
                             v[2] - MulDiv(nv[2], prev_len, next_len)>>)
                ELSE P
            ELSE SetC2(SetC1(P, next_idx, Add(v, pv)), prev_idx, Sub(v, pv))
        ELSE IF prev_is_bezier /\ next_edge.type = "ARC" THEN
            \* Case B1
            IF c = "G1" /\ prev_len > 0
            THEN PutC2(P, prev_idx,
                       AgainstTangent(v, _arc_tangent_at_vertex(P, next_idx, TRUE),
                                      prev_len))
            ELSE P
        ELSE IF prev_is_bezier THEN
            \* Case B2
            LET lv == Sub(P.pos[next_edge.v2], v)
            IN  IF l_len = 0 THEN P
                ELSE IF c = "G1"
                THEN SetC2(P, prev_idx,
                           <<v[1] - MulDiv(lv[1], prev_len, l_len),
                             v[2] - MulDiv(lv[2], prev_len, l_len)>>)
                ELSE SetC2(P, prev_idx, Sub(v, lv))
        ELSE IF prev_edge.type = "ARC" /\ next_is_bezier THEN
            \* Case C1
            IF c = "G1" /\ next_len > 0
            THEN PutC1(P, next_idx,
                       AlongTangent(v, _arc_tangent_at_vertex(P, prev_idx, FALSE),
                                    next_len))
            ELSE P
        ELSE IF next_is_bezier THEN
            \* Case C2
            LET lv == Sub(v, P.pos[prev_edge.v1])
            IN  IF l_len = 0 THEN P
                ELSE IF c = "G1"
                THEN SetC1(P, next_idx,
                           <<v[1] + MulDiv(lv[1], next_len, l_len),
                             v[2] + MulDiv(lv[2], next_len, l_len)>>)
                ELSE SetC1(P, next_idx, Add(v, lv))
        ELSE P

\* enforce_vertex_continuity_from_vertex between the edges adj found for it
\* a variant of the enforcement that, for C1 between two Beziers, takes
\* next.c1 as given and mirrors it into prev.c2
EnforceFromNext(P, vertex, adj) ==
    LET prev_edge == P.edges[adj[1]]
        next_edge == P.edges[adj[2]]
        v == P.pos[vertex]
        pv == Sub(v, prev_edge.c2)
        nv == Sub(next_edge.c1, v)
        lv == IF prev_edge.type = "BEZIER"
              THEN Sub(P.pos[next_edge.v2], v)
              ELSE Sub(v, P.pos[prev_edge.v1])
    IN  IF adj[1] = NoEdge \/ adj[2] = NoEdge THEN P
        ELSE IF P.cont[vertex] = "G0" THEN P
        ELSE IF /\ P.cont[vertex] = "C1"
                /\ prev_edge.type = "BEZIER"
                /\ next_edge.type = "BEZIER"
        THEN SetC2(P, adj[1], Sub(v, nv))
        ELSE EnforceHandles(
                 P, adj[1], adj[2], v, P.cont[vertex],
                 IF prev_edge.type = "BEZIER" THEN Hypot(pv[1], pv[2]) ELSE 0,
                 IF next_edge.type = "BEZIER" THEN Hypot(nv[1], nv[2]) ELSE 0,
                 Hypot(lv[1], lv[2]))

EnforceBetween(P, vertex, adj) ==
    LET prev_edge == P.edges[adj[1]]
        next_edge == P.edges[adj[2]]
        v == P.pos[vertex]
        pv == Sub(v, prev_edge.c2)
        nv == Sub(next_edge.c1, v)
        lv == IF prev_edge.type = "BEZIER"
              THEN Sub(P.pos[next_edge.v2], v)
              ELSE Sub(v, P.pos[prev_edge.v1])
    IN  IF adj[1] = NoEdge \/ adj[2] = NoEdge THEN P
        ELSE IF P.cont[vertex] = "G0" THEN P
        ELSE update_edge(
                 update_edge(
                     EnforceHandles(
                         P, adj[1], adj[2], v, P.cont[vertex],
                         IF prev_edge.type = "BEZIER" THEN Hypot(pv[1], pv[2]) ELSE 0,
                         IF next_edge.type = "BEZIER" THEN Hypot(nv[1], nv[2]) ELSE 0,
                         Hypot(lv[1], lv[2])),
                     adj[1]),
                 adj[2])

\* enforce_vertex_continuity_from_vertex: moves the Bezier handles next to
\* the vertex so that its continuity holds; moves no vertex
enforce_vertex_continuity_from_vertex(P, vertex) ==
    EnforceBetween(P, vertex, adjacent_edges_of_vertex(P, vertex))

\* What a call gives back: the polygon after it, its return value and
\* whether it ran enforce_vertex_continuity_from_vertex on its vertex.
Outcome(P, ret, enforced) == [P |-> P, ret |-> ret, enforced |-> enforced]

\* a variant of has_bez that also counts an Arc
HasBezierOrArc(t1, t2) ==
    t1 = "BEZIER" \/ t2 = "BEZIER" \/ t1 = "ARC" \/ t2 = "ARC"

\* has_bez
HasBezier(t1, t2) == t1 = "BEZIER" \/ t2 = "BEZIER"

\* a variant of has_arc that never sees an Arc
SeesNoArc(t1, t2) == FALSE

\* has_arc
HasArc(t1, t2) == t1 = "ARC" \/ t2 = "ARC"

\* a variant of both_line that never holds
NeverBothLine(t1, t2) == FALSE

\* both_line
BothLine(t1, t2) == t1 = "LINE" /\ t2 = "LINE"

\* a variant of the conflict test that finds no conflict
NoArcConflicts(P, vertex, prev_idx, next_idx) == FALSE

\* "conflicts": an adjacent Arc whose other endpoint already has G1
ArcConflicts(P, vertex, prev_idx, next_idx) ==
    LET prev_edge == P.edges[prev_idx]
        next_edge == P.edges[next_idx]
        other1 == IF prev_edge.v1 = vertex THEN prev_edge.v2 ELSE prev_edge.v1
        other2 == IF next_edge.v1 = vertex THEN next_edge.v2 ELSE next_edge.v1
    IN  \/ prev_edge.type = "ARC" /\ P.cont[other1] = "G1"
        \/ next_edge.type = "ARC" /\ P.cont[other2] = "G1"

\* apply_continuity_to_vertex between the edges adj found for the vertex
ApplyBetween(P, vertex, continuity, adj) ==
    LET prev_idx == adj[1]
        next_idx == adj[2]
        t1 == P.edges[prev_idx].type
        t2 == P.edges[next_idx].type
        has_bez == HasBezier(t1, t2)
        has_arc == HasArc(t1, t2)
        both_line == BothLine(t1, t2)
        checked == continuity = "G1" /\ has_arc
        set == [P EXCEPT !.cont[vertex] = continuity,
                         !.warning = IF checked THEN FALSE ELSE @]
    IN  IF prev_idx = NoEdge \/ next_idx = NoEdge THEN Outcome(P, FALSE, FALSE)
        ELSE IF both_line THEN Outcome(P, FALSE, FALSE)
        ELSE IF has_arc /\ continuity = "C1" THEN Outcome(P, FALSE, FALSE)
        ELSE IF checked /\ ArcConflicts(P, vertex, prev_idx, next_idx)
        THEN Outcome([P EXCEPT !.warning = TRUE], FALSE, FALSE)
        ELSE IF has_bez
        THEN Outcome(EnforceBetween(set, vertex, adj), TRUE, TRUE)
        ELSE Outcome(set, TRUE, FALSE)

\* apply_continuity_to_vertex
apply_continuity_to_vertex(P, vertex, continuity) ==
    ApplyBetween(P, vertex, continuity, adjacent_edges_of_vertex(P, vertex))

\* a variant of _replace_edge_at_index that hands the constraint of the old
\* edge on to the new one
ReplaceKeepingConstraint(P, idx, new_edge) ==
    _sync_edges_dict(
        [P EXCEPT !.edges[idx] =
                      [new_edge EXCEPT !.constraint_type = P.edges[idx].constraint_type,
                                       !.constraint_value = P.edges[idx].constraint_value],
                  !.edges_dict = DictAfterPut(@, idx)])

\* _replace_edge_at_index
_replace_edge_at_index(P, idx, new_edge) ==
    LET e == IF new_edge.type # "LINE"
             THEN [new_edge EXCEPT !.constraint_type = "NONE",
                                   !.constraint_value = NoValue]
             ELSE new_edge
    IN  _sync_edges_dict([P EXCEPT !.edges[idx] = e,
                                   !.edges_dict = DictAfterPut(@, idx)])

\* "if not apply_continuity_to_vertex(v, C1): apply_continuity_to_vertex(v, G1)"
OrElseG1(first, v) ==
    IF first.ret THEN first.P
    ELSE apply_continuity_to_vertex(first.P, v, "G1").P

\* convert_edge's "for v in (v1, v2)": C1 if it is accepted, else G1
TryContinuity(P, v) == OrElseG1(apply_continuity_to_vertex(P, v, "C1"), v)

\* convert_edge
convert_edge(P, idx, new_type) ==
    LET edge == P.edges[idx]
        v1 == edge.v1
        v2 == edge.v2
        p1 == P.pos[v1]
        p2 == P.pos[v2]
        dx == p2[1] - p1[1]
        dy == p2[2] - p1[2]
        c1 == <<p1[1] + RoundDiv(dx, 3), p1[2] + RoundDiv(dy, 3)>>
        c2 == <<p2[1] - RoundDiv(dx, 3), p2[2] - RoundDiv(dy, 3)>>
    IN  IF new_type = "LINE"
        THEN _replace_edge_at_index(P, idx, Edge(v1, v2))
        ELSE IF new_type = "BEZIER"
        THEN TryContinuity(
                 TryContinuity(
                     _replace_edge_at_index(P, idx, Bezier(v1, v2, c1, c2)), v1),
                 v2)
        ELSE LET R == _replace_edge_at_index(P, idx, Arc(v1, v2))
             IN  [R EXCEPT !.cont[v1] = "G0", !.cont[v2] = "G0"]

\* add_vertex_on_edge
add_vertex_on_edge(P, idx) ==
    LET edge == P.edges[idx]
        v1 == edge.v1
        v2 == edge.v2
        new_vertex == FreshVertex(P.vertices)
        mid == <<RoundDiv(P.pos[v1][1] + P.pos[v2][1], 2),
                 RoundDiv(P.pos[v1][2] + P.pos[v2][2], 2)>>
        found == IndexOf(P.vertices, v1)
        v1_idx == IF found # 0 THEN found ELSE Len(P.vertices)
        new_edge1 == Edge(v1, new_vertex)
        new_edge2 == Edge(new_vertex, v2)
    IN  _sync_edges_dict(
            [P EXCEPT !.vertices = InsertAt(@, v1_idx + 1, new_vertex),
                      !.pos[new_vertex] = mid,
                      !.cont[new_vertex] = NewContinuity,
                      !.edges = InsertAt([@ EXCEPT ![idx] = new_edge1],
                                         idx + 1, new_edge2),
                      !.edges_dict = DictAfterInsert(DictAfterPut(@, idx),
                                                     idx + 1)])

\* the positions of the edges that have the vertex as an endpoint, ascending
RECURSIVE IncidentFrom(_, _, _)
IncidentFrom(es, vertex, i) ==
    IF i > Len(es) THEN <<>>
    ELSE IF es[i].v1 = vertex \/ es[i].v2 = vertex
    THEN <<i>> \o IncidentFrom(es, vertex, i + 1)
    ELSE IncidentFrom(es, vertex, i + 1)

\* "for del_edge_index in reversed(edge_indices[1:]): del edges[...]"
\* a variant of the removal that leaves every edge in the list
RemoveNone(es, indices) == es

RECURSIVE RemoveAll(_, _)
RemoveAll(es, indices) ==
    IF indices = <<>> THEN es
    ELSE RemoveAll(RemoveAt(es, indices[Len(indices)]),
                   SubSeq(indices, 1, Len(indices) - 1))

\* a variant of the guard that lets every vertex go
MayDeleteAny(n) == n > 0

\* "if n > 3": a vertex is deleted only from a polygon of more than three
MayDelete(n) == n > MinVertices

\* delete_vertex; a vertex object that left the polygon is dropped
delete_vertex(P, vertex) ==
    LET n == Len(P.vertices)
        del_vertex_index == IndexOf(P.vertices, vertex)
        prev_vertex == P.vertices[CycPrev(del_vertex_index, n)]
        next_vertex == P.vertices[CycNext(del_vertex_index, n)]
        edge_indices == IncidentFrom(P.edges, vertex, 1)
        replace_index == edge_indices[1]
        replaced == [P.edges EXCEPT ![replace_index] = Edge(prev_vertex, next_vertex)]
    IN  IF MayDelete(n)
        THEN _sync_edges_dict(
                 [P EXCEPT !.vertices = RemoveAt(@, del_vertex_index),
                           !.pos[vertex] = <<0, 0>>,
                           !.cont[vertex] = NewContinuity,
                           !.edges = RemoveAll(replaced, Tail(edge_indices)),
                           !.edges_dict = DictAfterDelAll(
                                              DictAfterPut(@, replace_index),
                                              Tail(edge_indices))])
        ELSE P

(***************************************************************************)
(* Constraints                                                             *)
(***************************************************************************)
\* UnitScale times the length of (dx, dy)
LengthScaled(dx, dy) ==
    LET q == dx * dx + dy * dy
    IN  IF q <= 200000 THEN RoundSqrt(q * UnitScale * UnitScale)
        ELSE UnitScale * RoundSqrt(q)

\* a variant of the FIXED_LENGTH rule that always lays the edge along the
\* x axis
FixedLengthAlongX(p1, p2, L) == <<p1[1] + L, p1[2]>>

\* a variant of the DIAGONAL_45 rule that keeps the sum |dx| + |dy| along
\* each axis instead of the Euclidean length
DiagonalBySum(p1, p2) ==
    LET dx == p2[1] - p1[1]
        dy == p2[2] - p1[2]
        sx == IF dx >= 0 THEN 1 ELSE -1
        sy == IF dy >= 0 THEN 1 ELSE -1
    IN  IF dx = 0 /\ dy = 0 THEN <<p1[1] + 1, p1[2] + 1>>
        ELSE <<p1[1] + sx * (sx * dx + sy * dy), p1[2] + sy * (sx * dx + sy * dy)>>

\* a variant of the DIAGONAL_45 rule that always takes the diagonal of the
\* (+, +) quadrant
DiagonalPositive(p1, p2) ==
    LET dx == p2[1] - p1[1]
        dy == p2[2] - p1[2]
        q == dx * dx + dy * dy
        along == IF q = 0 THEN 1 ELSE (SqrtBetween(2 * q, 0, 46340) + 1) \div 2
    IN  <<p1[1] + along, p1[2] + along>>

\* FIXED_LENGTH: "scale = L / dist; v1 + d * scale", and v1 + (L, 0) when
\* v2 lies on v1
FixedLengthPoint(p1, p2, L) ==
    LET dx == p2[1] - p1[1]
        dy == p2[2] - p1[2]
        dist == LengthScaled(dx, dy)
    IN  IF dx = 0 /\ dy = 0 THEN <<p1[1] + L, p1[2]>>
        ELSE <<p1[1] + RoundDiv(dx * L * UnitScale, dist),
               p1[2] + RoundDiv(dy * L * UnitScale, dist)>>

\* DIAGONAL_45: the nearest diagonal in the quadrant of (dx, dy), at the
\* current distance (dist / sqrt 2 along each axis, to the nearest integer:
\* half of the root of 2 q, rounded); a step of length 1 when v2 lies on v1
DiagonalPoint(p1, p2) ==
    LET dx == p2[1] - p1[1]
        dy == p2[2] - p1[2]
        sx == IF dx >= 0 THEN 1 ELSE -1
        sy == IF dy >= 0 THEN 1 ELSE -1
        q == dx * dx + dy * dy
        along == IF q = 0 THEN RoundDiv(RoundSqrt(2 * UnitScale * UnitScale), 2 * UnitScale)
                 ELSE (SqrtBetween(2 * q, 0, 46340) + 1) \div 2
    IN  <<p1[1] + sx * along, p1[2] + sy * along>>

\* a variant of _enforce_edge_constraint that treats an edge without
\* constraint as a VERTICAL one and lets the propagation go on
EnforceUnconstrainedToo(P, v1, v2) ==
    LET idx == _edge_between(P, v1, v2)
        current_edge == P.edges[idx]
        p1 == P.pos[v1]
        p2 == P.pos[v2]
    IN  IF idx = NoEdge THEN [P |-> P, go |-> FALSE]
        ELSE IF current_edge.constraint_type \in {"NONE", "VERTICAL"}
        THEN [P |-> [P EXCEPT !.pos[v2] = <<p1[1], p2[2]>>], go |-> TRUE]
        ELSE IF current_edge.constraint_type = "FIXED_LENGTH"
        THEN [P |-> [P EXCEPT !.pos[v2] =
                        FixedLengthPoint(p1, p2, current_edge.constraint_value)],
              go |-> TRUE]
        ELSE [P |-> [P EXCEPT !.pos[v2] = DiagonalPoint(p1, p2)], go |-> TRUE]

\* _enforce_edge_constraint: v1 stays, v2 is put where the constraint of the
\* edge between them wants it; "go" is the returned continue_propagation
_enforce_edge_constraint(P, v1, v2) ==
    LET idx == _edge_between(P, v1, v2)
        current_edge == P.edges[idx]
        p1 == P.pos[v1]
        p2 == P.pos[v2]
    IN  IF idx = NoEdge THEN [P |-> P, go |-> FALSE]
        ELSE IF current_edge.constraint_type = "NONE" THEN [P |-> P, go |-> FALSE]
        ELSE IF current_edge.constraint_type = "VERTICAL"
        THEN [P |-> [P EXCEPT !.pos[v2] = <<p1[1], p2[2]>>], go |-> TRUE]
        ELSE IF current_edge.constraint_type = "FIXED_LENGTH"
        THEN [P |-> [P EXCEPT !.pos[v2] =
                        FixedLengthPoint(p1, p2, current_edge.constraint_value)],
              go |-> TRUE]
        ELSE IF current_edge.constraint_type = "DIAGONAL_45"
        THEN [P |-> [P EXCEPT !.pos[v2] = DiagonalPoint(p1, p2)], go |-> TRUE]
        ELSE [P |-> P, go |-> FALSE]

\* a variant of the propagation that tests for the origin only after the
\* edge has been enforced, so that a full loop moves the origin too
RECURSIVE PropagatePastOrigin(_, _, _, _)
PropagatePastOrigin(P, idx, i, rightwards) ==
    LET n == Len(P.vertices)
        j == IF rightwards THEN CycNext(i, n) ELSE CycPrev(i, n)
        r == _enforce_edge_constraint(P, P.vertices[i], P.vertices[j])
    IN  IF ~r.go \/ j = idx THEN r.P
        ELSE PropagatePastOrigin(r.P, idx, j, rightwards)

\* one direction of on_vertex_moved's propagation: from position i, step by
\* step (+1 rightwards, -1 leftwards) until the origin idx comes next or an
\* edge stops the propagation
RECURSIVE Propagate(_, _, _, _)
Propagate(P, idx, i, rightwards) ==
    LET n == Len(P.vertices)
        j == IF rightwards THEN CycNext(i, n) ELSE CycPrev(i, n)
        r == _enforce_edge_constraint(P, P.vertices[i], P.vertices[j])
    IN  IF j = idx THEN P
        ELSE IF ~r.go THEN r.P
        ELSE Propagate(r.P, idx, j, rightwards)

\* the vertices that the same loop passes to _enforce_edge_constraint as v2,
\* one entry per call, in the order of the calls
RECURSIVE Walk(_, _, _, _)
Walk(P, idx, i, rightwards) ==
    LET n == Len(P.vertices)
        j == IF rightwards THEN CycNext(i, n) ELSE CycPrev(i, n)
        r == _enforce_edge_constraint(P, P.vertices[i], P.vertices[j])
    IN  IF j = idx THEN <<>>
        ELSE IF ~r.go THEN <<P.vertices[j]>>
        ELSE <<P.vertices[j]>> \o Walk(r.P, idx, j, rightwards)

\* "for v in self.polygon.vertices: if v.continuity != G0: enforce..."
RECURSIVE EnforceContinuityFrom(_, _)
EnforceContinuityFrom(P, k) ==
    IF k > Len(P.vertices) THEN P
    ELSE LET v == P.vertices[k]
         IN  EnforceContinuityFrom(
                 IF P.cont[v] # "G0"
                 THEN enforce_vertex_continuity_from_vertex(P, v)
                 ELSE P,
                 k + 1)

\* on_vertex_moved
on_vertex_moved(P, vertex, p) ==
    LET moved == [Entered(P, "on_vertex_moved") EXCEPT !.pos[vertex] = p]
        n == Len(P.vertices)
        idx == IndexOf(P.vertices, vertex)
        right == Propagate(moved, idx, idx, TRUE)
        left == Propagate(right, idx, idx, FALSE)
    IN  EnforceContinuityFrom(UpdateVisuals(IF n > 1 THEN left ELSE moved), 1)

(***************************************************************************)
(* Dragging a Bezier handle                                                *)
(***************************************************************************)
\* "1.0 / math.sqrt(2.0)", in fixed point
InvSqrt2 == RoundSqrt((UnitScale * UnitScale) \div 2)

\* "-1.0 if u < 0 else 1.0 if u > 0 else (-1.0 if d < 0 else 1.0)"
SignOf(u, d) == IF u < 0 THEN -1 ELSE IF u > 0 THEN 1 ELSE IF d < 0 THEN -1 ELSE 1

\* the first of two vectors that has a direction, else the default
FirstWithDirection(a, b, default) ==
    IF a[1] # 0 \/ a[2] # 0 THEN a
    ELSE IF b[1] # 0 \/ b[2] # 0 THEN b
    ELSE default

\* geometry.normalize_vector: the unit vector (or None); the length is Hypot
normalize_vector(vec) == unit(vec[1], vec[2])

\* what _project_direction_to_constraint and the unconstrained branch give:
\* a unit direction for the Line and the length it is to have
Projected(dir, len) == [dir |-> dir, len |-> len]

\* _project_direction_to_constraint, for the vector d from the vertex to
\* the other end of the Line and the vector chosen to give the direction
ProjectedOnto(d, chosen, current_len, constraint_type, constraint_value) ==
    IF constraint_type = "VERTICAL"
    THEN Projected(<<0, SignOf(chosen[2], d[2]) * UnitScale>>, current_len)
    ELSE IF constraint_type = "DIAGONAL_45"
    THEN Projected(<<SignOf(chosen[1], d[1]) * InvSqrt2,
                     SignOf(chosen[2], d[2]) * InvSqrt2>>, current_len)
    ELSE IF constraint_type = "FIXED_LENGTH"
    THEN Projected(normalize_vector(chosen),
                   IF constraint_value = NoValue \/ constraint_value = 0
                   THEN current_len ELSE Abs(constraint_value))
    ELSE Projected(normalize_vector(chosen), current_len)

_project_direction_to_constraint(P, vertex, other_vertex, desired_dir, constraint_type, constraint_value) ==
    LET d == Sub(P.pos[other_vertex], P.pos[vertex])
        len == Hypot(d[1], d[2])
    IN  ProjectedOnto(
            d, FirstWithDirection(desired_dir, d, <<1, 0>>),
            IF len > 0 THEN len
            ELSE IF /\ constraint_type = "FIXED_LENGTH"
                    /\ constraint_value # NoValue /\ constraint_value # 0
            THEN Abs(constraint_value)
            ELSE 1,
            constraint_type, constraint_value)

\* Cases B and C, "if line_constraint != NONE: ... else: ...": the direction
\* and the base length of the Line from the vertex to "other"
LineDirection(P, vertex, other, line, desired_dir, default, handle_len) ==
    LET d == Sub(P.pos[other], P.pos[vertex])
        base_len == Hypot(d[1], d[2])
    IN  IF line.constraint_type # "NONE"
        THEN _project_direction_to_constraint(P, vertex, other, desired_dir,
                                              line.constraint_type,
                                              line.constraint_value)
        ELSE Projected(normalize_vector(FirstWithDirection(desired_dir, d, default)),
                       IF base_len > 0 THEN base_len
                       ELSE IF handle_len > 0 THEN handle_len ELSE 1)

\* what the geometry of enforce_vertex_continuity_from_control gives: the
\* polygon and the list moved_vertices
Driven(P, moved_vertices) == [P |-> P, moved_vertices |-> moved_vertices]

\* Case A: both edges Bezier, the moved handle is the driver
\* a variant of Case A that does not look at which handle was dragged and
\* derives both handles from prev.c2, as enforce_vertex_continuity_from_vertex
\* does
DriveFromPrev(P, prev_idx, next_idx, v, c, moved_control, prev_len, next_len) ==
    EnforceHandles(P, prev_idx, next_idx, v, c, prev_len, next_len, 0)

DriveHandles(P, prev_idx, next_idx, v, c, moved_control, prev_len, next_len) ==
    LET pv == Sub(v, P.edges[prev_idx].c2)
        nv == Sub(P.edges[next_idx].c1, v)
        to_next == <<v[1] + MulDiv(pv[1], next_len, Max(prev_len, 1)),
                     v[2] + MulDiv(pv[2], next_len, Max(prev_len, 1))>>
        to_prev == <<v[1] - MulDiv(nv[1], prev_len, Max(next_len, 1)),
                     v[2] - MulDiv(nv[2], prev_len, Max(next_len, 1))>>
    IN  IF c = "G1" THEN
            IF moved_control = "prev" /\ prev_len > 0 THEN SetC1(P, next_idx, to_next)
            ELSE IF moved_control = "next" /\ next_len > 0 THEN SetC2(P, prev_idx, to_prev)
            ELSE IF prev_len > 0
            THEN SetC2(SetC1(P, next_idx, to_next), prev_idx,
                       <<v[1] - MulDiv(pv[1], prev_len, prev_len),
                         v[2] - MulDiv(pv[2], prev_len, prev_len)>>)
            ELSE IF next_len > 0 THEN SetC2(P, prev_idx, to_prev)
            ELSE P
        ELSE IF moved_control = "prev" THEN SetC1(P, next_idx, Add(v, pv))
        ELSE IF moved_control = "next" THEN SetC2(P, prev_idx, Sub(v, nv))
        ELSE SetC2(SetC1(P, next_idx, Add(v, pv)), prev_idx, Sub(v, pv))

\* Case B: prev is Bezier, next is a Line to "other"; dl is the Line's
\* direction and base length
DriveLineAfter(P, prev_idx, v, c, other, dl, prev_len, fixed) ==
    LET line_len == IF c = "G1" \/ fixed THEN dl.len
                    ELSE IF prev_len > 0 THEN prev_len ELSE dl.len
        handle == IF c = "C1" THEN Sub(v, Scaled(dl.dir, line_len))
                  ELSE IF prev_len > 0 THEN Sub(v, Scaled(dl.dir, prev_len))
                  ELSE P.edges[prev_idx].c2
    IN  Driven([SetC2(P, prev_idx, handle)
                   EXCEPT !.pos[other] = Add(v, Scaled(dl.dir, line_len))],
               <<other>>)

\* Case C: prev is a Line from "other", next is Bezier
DriveLineBefore(P, next_idx, v, c, other, dl, next_len, fixed) ==
    LET line_len == IF c = "G1" \/ fixed THEN dl.len
                    ELSE IF next_len > 0 THEN next_len ELSE dl.len
        handle == IF c = "C1" THEN Sub(v, Scaled(dl.dir, line_len))
                  ELSE IF next_len > 0 THEN Sub(v, Scaled(dl.dir, next_len))
                  ELSE P.edges[next_idx].c1
    IN  Driven([SetC1(P, next_idx, handle)
                   EXCEPT !.pos[other] = Add(v, Scaled(dl.dir, line_len))],
               <<other>>)

\* the cases of enforce_vertex_continuity_from_control, with its locals
DriveBetween(P, vertex, moved_control, prev_idx, next_idx, v, c, prev_len, next_len) ==
    LET prev_edge == P.edges[prev_idx]
        next_edge == P.edges[next_idx]
        prev_is_bezier == prev_edge.type = "BEZIER"
        next_is_bezier == next_edge.type = "BEZIER"
    IN  IF prev_is_bezier /\ next_is_bezier
        THEN Driven(DriveHandles(P, prev_idx, next_idx, v, c, moved_control,
                                 prev_len, next_len), <<>>)
        ELSE IF prev_is_bezier /\ next_edge.type = "ARC"
        THEN Driven(IF c = "G1" /\ prev_len > 0
                    THEN PutC2(P, prev_idx,
                               AgainstTangent(v, _arc_tangent_at_vertex(P, next_idx, TRUE),
                                              prev_len))
                    ELSE P, <<>>)
        ELSE IF prev_is_bezier
        THEN DriveLineAfter(P, prev_idx, v, c, next_edge.v2,
                            LineDirection(P, vertex, next_edge.v2, next_edge,
                                          Sub(v, prev_edge.c2), <<1, 0>>, prev_len),
                            prev_len, next_edge.constraint_type = "FIXED_LENGTH")
        ELSE IF prev_edge.type = "ARC" /\ next_is_bezier
        THEN Driven(IF c = "G1" /\ next_len > 0
                    THEN PutC1(P, next_idx,
                               AlongTangent(v, _arc_tangent_at_vertex(P, prev_idx, FALSE),
                                            next_len))
                    ELSE P, <<>>)
        ELSE IF next_is_bezier
        THEN DriveLineBefore(P, next_idx, v, c, prev_edge.v1,
                             LineDirection(P, vertex, prev_edge.v1, prev_edge,
                                           Sub(v, next_edge.c1), <<-1, 0>>, next_len),
                             next_len, prev_edge.constraint_type = "FIXED_LENGTH")
        ELSE Driven(P, <<>>)

\* the geometry of enforce_vertex_continuity_from_control between the edges
\* adj found for the vertex; "go" is FALSE where the code returns early
DriveAt(P, vertex, moved_control, adj) ==
    LET prev_edge == P.edges[adj[1]]
        next_edge == P.edges[adj[2]]
        v == P.pos[vertex]
        pv == Sub(v, prev_edge.c2)
        nv == Sub(next_edge.c1, v)
    IN  IF adj[1] = NoEdge \/ adj[2] = NoEdge THEN Driven(P, <<>>)
        ELSE IF P.cont[vertex] = "G0" THEN Driven(P, <<>>)
        ELSE DriveBetween(
                 P, vertex, moved_control, adj[1], adj[2], v, P.cont[vertex],
                 IF prev_edge.type = "BEZIER" THEN Hypot(pv[1], pv[2]) ELSE 0,
                 IF next_edge.type = "BEZIER" THEN Hypot(nv[1], nv[2]) ELSE 0)

\* "for moved in moved_vertices: self.on_vertex_moved(moved, QPointF(...))"
RECURSIVE NestedMoves(_, _)
NestedMoves(P, moved_vertices) ==
    IF moved_vertices = <<>> THEN P
    ELSE NestedMoves(on_vertex_moved(P, Head(moved_vertices),
                                     P.pos[Head(moved_vertices)]),
                     Tail(moved_vertices))

\* the rest of enforce_vertex_continuity_from_control, after its geometry
\* gave r: the two edge items, the vertex items, and the nested moves
AfterDriving(r, adj) ==
    NestedMoves(SetPosUnderFlag(update_edge(update_edge(r.P, adj[1]), adj[2])),
                r.moved_vertices)

FromControlBetween(P, vertex, moved_control, adj) ==
    IF adj[1] = NoEdge \/ adj[2] = NoEdge \/ P.cont[vertex] = "G0" THEN P
    ELSE AfterDriving(DriveAt(P, vertex, moved_control, adj), adj)

\* enforce_vertex_continuity_from_control
enforce_vertex_continuity_from_control(P, vertex, moved_control) ==
    FromControlBetween(Entered(P, "enforce_vertex_continuity_from_control"),
                       vertex, moved_control,
                       adjacent_edges_of_vertex(P, vertex))

\* BezierEdgeItem.on_control_moved for the handle c1 or c2 of edges[idx]
on_control_moved(P, idx, handle, p) ==
    LET entered == Entered(P, "on_control_moved")
        placed == update_edge(IF handle = "c1" THEN SetC1(entered, idx, p)
                              ELSE SetC2(entered, idx, p), idx)
    IN  UpdateEdgesFrom(
            IF handle = "c1"
            THEN enforce_vertex_continuity_from_control(placed, P.edges[idx].v1, "next")
            ELSE enforce_vertex_continuity_from_control(placed, P.edges[idx].v2, "prev"),
            1)

\* a variant of the neighbour test that looks at the previous edge only
VerticalBefore(prev_edge, next_edge) == prev_edge.constraint_type = "VERTICAL"

\* "prev_edge.constraint_type == VERTICAL or next_edge.constraint_type == VERTICAL"
VerticalNeighbour(prev_edge, next_edge) ==
    \/ prev_edge.constraint_type = "VERTICAL"
    \/ next_edge.constraint_type = "VERTICAL"

\* a variant of apply_constraint_to_edge that stores the constraint before
\* it looks at the neighbours, so that a refused call leaves it stored
StoreThenCheck(P, idx, constraint_type, value) ==
    LET edge == P.edges[idx]
        n == Len(P.edges)
        set == [P EXCEPT !.edges[idx].constraint_type = constraint_type,
                         !.edges[idx].constraint_value = value]
        moving == edge.v2
        target ==
            IF constraint_type = "VERTICAL"
            THEN <<P.pos[edge.v1][1], P.pos[moving][2]>>
            ELSE IF constraint_type = "DIAGONAL_45"
            THEN DiagonalPoint(P.pos[edge.v1], P.pos[moving])
            ELSE IF constraint_type = "FIXED_LENGTH" /\ value # NoValue
            THEN FixedLengthPoint(P.pos[edge.v1], P.pos[moving], value)
            ELSE P.pos[moving]
    IN  IF constraint_type = "NONE" THEN Outcome(set, TRUE, FALSE)
        ELSE IF /\ constraint_type = "VERTICAL"
                /\ VerticalNeighbour(P.edges[CycPrev(idx, n)], P.edges[CycNext(idx, n)])
        THEN Outcome(set, FALSE, FALSE)
        ELSE Outcome([set EXCEPT !.pos[moving] = target], TRUE, FALSE)

\* apply_constraint_to_edge
apply_constraint_to_edge(P, idx, constraint_type, value) ==
    LET edge == P.edges[idx]
        n == Len(P.edges)
        prev_edge == P.edges[CycPrev(idx, n)]
        next_edge == P.edges[CycNext(idx, n)]
        other == edge.v1
        moving == edge.v2
        set == [P EXCEPT !.edges[idx].constraint_type = constraint_type,
                         !.edges[idx].constraint_value = value]
        target ==
            IF constraint_type = "VERTICAL"
            THEN <<P.pos[other][1], P.pos[moving][2]>>
            ELSE IF constraint_type = "DIAGONAL_45"
            THEN DiagonalPoint(P.pos[other], P.pos[moving])
            ELSE IF constraint_type = "FIXED_LENGTH" /\ value # NoValue
            THEN FixedLengthPoint(P.pos[other], P.pos[moving], value)
            ELSE P.pos[moving]
    IN  IF constraint_type = "NONE"
        THEN Outcome([P EXCEPT !.edges[idx].constraint_type = "NONE",
                               !.edges[idx].constraint_value = NoValue],
                     TRUE, FALSE)
        ELSE IF constraint_type = "VERTICAL" /\ VerticalNeighbour(prev_edge, next_edge)
        THEN Outcome(P, FALSE, FALSE)
        ELSE Outcome([set EXCEPT !.pos[moving] = target], TRUE, FALSE)

(***************************************************************************)
(* The state machine                                                       *)
(***************************************************************************)
\* Polygon.__init__: the initial triangle, and PolygonItem.__init__
InitialVertices == <<1, 2, 3>>

InitialPositions == <<<<1, 4>>, <<50, -10>>, <<200, 40>>>>

Init ==
    /\ vertices = InitialVertices
    /\ edges = [i \in 1..3 |-> Edge(InitialVertices[i], InitialVertices[CycNext(i, 3)])]
    /\ pos = [v \in VertexIds |-> IF v <= 3 THEN InitialPositions[v] ELSE <<0, 0>>]
    /\ cont = [v \in VertexIds |-> NewContinuity]
    /\ edges_dict = SyncedDict(edges)
    /\ last_continuity_warning = FALSE
    /\ call = [op |-> "__init__", ret |-> "None", enforced |-> FALSE, pixels |-> <<>>, tangent |-> NoPoint, arc |-> <<>>]
    /\ ncalls = 0

Commit(P) ==
    /\ vertices' = P.vertices
    /\ edges' = P.edges
    /\ pos' = P.pos
    /\ cont' = P.cont
    /\ edges_dict' = P.edges_dict
    /\ last_continuity_warning' = P.warning

Returned(op, ret, enforced) ==
    /\ ncalls' = ncalls + 1
    /\ call' = [op |-> op, ret |-> ret, enforced |-> enforced, pixels |-> <<>>, tangent |-> NoPoint, arc |-> <<>>]

InPolygon(v) == \E i \in 1..Len(vertices) : vertices[i] = v

ConvertEdge(idx, new_type) ==
    /\ idx \in 1..Len(edges)
    /\ Commit(convert_edge(Polygon, idx, new_type))
    /\ Returned("convert_edge", "None", FALSE)

AddVertexOnEdge(idx) ==
    /\ idx \in 1..Len(edges)
    /\ Len(vertices) < MaxVertices
    /\ Commit(add_vertex_on_edge(Polygon, idx))
    /\ Returned("add_vertex_on_edge", "None", FALSE)

DeleteVertex(v) ==
    /\ InPolygon(v)
    /\ Commit(delete_vertex(Polygon, v))
    /\ Returned("delete_vertex", "None", FALSE)

ApplyContinuityToVertex(v, c) ==
    /\ InPolygon(v)
    /\ \E r \in {apply_continuity_to_vertex(Polygon, v, c)} :
           /\ Commit(r.P)
           /\ Returned("apply_continuity_to_vertex",
                       IF r.ret THEN "True" ELSE "False", r.enforced)

NextEdit ==
    \/ ncalls < MaxCalls /\ \E idx \in 1..MaxVertices, t \in EdgeTypes : ConvertEdge(idx, t)
    \/ ncalls < MaxCalls /\ \E idx \in 1..MaxVertices : AddVertexOnEdge(idx)
    \/ ncalls < MaxCalls /\ \E v \in VertexIds : DeleteVertex(v)
    \/ ncalls < MaxCalls /\ \E v \in VertexIds, c \in ContinuityTypes : ApplyContinuityToVertex(v, c)

SpecEdit == Init /\ [][NextEdit]_vars

\* positions a vertex is dragged to, and lengths typed into the dialog
MovePoints == {<<50, -10>>, <<60, 80>>}

Lengths == {40}

ConstraintChoices ==
    {<<"NONE", NoValue>>, <<"VERTICAL", NoValue>>, <<"DIAGONAL_45", NoValue>>}
    \cup {<<"FIXED_LENGTH", L>> : L \in Lengths}

ApplyConstraintToEdge(idx, choice) ==
    /\ idx \in 1..Len(edges)
    /\ \E r \in {apply_constraint_to_edge(Polygon, idx, choice[1], choice[2])} :
           /\ Commit(r.P)
           /\ Returned("apply_constraint_to_edge",
                       IF r.ret THEN "True" ELSE "False", FALSE)

OnVertexMoved(v, p) ==
    /\ InPolygon(v)
    /\ Commit(on_vertex_moved(Polygon, v, p))
    /\ Returned("on_vertex_moved", "None", FALSE)

NextConstrain ==
    \/ ncalls < MaxConstraintCalls /\ \E idx \in 1..MaxVertices, ch \in ConstraintChoices : ApplyConstraintToEdge(idx, ch)
    \/ ncalls < MaxConstraintCalls /\ \E idx \in 1..MaxVertices, t \in EdgeTypes : ConvertEdge(idx, t)
    \/ ncalls < MaxConstraintCalls /\ \E idx \in 1..MaxVertices : AddVertexOnEdge(idx)
    \/ ncalls < MaxConstraintCalls /\ \E v \in VertexIds : DeleteVertex(v)

SpecConstrain == Init /\ [][NextConstrain]_vars

NextMove ==
    \/ ncalls < MaxConstraintCalls /\ \E v \in VertexIds, p \in MovePoints : OnVertexMoved(v, p)
    \/ ncalls < MaxConstraintCalls /\ \E idx \in 1..MaxVertices, ch \in ConstraintChoices : ApplyConstraintToEdge(idx, ch)
    \/ ncalls < MaxConstraintCalls /\ \E idx \in 1..MaxVertices, t \in EdgeTypes : ConvertEdge(idx, t)
    \/ ncalls < MaxConstraintCalls /\ \E idx \in 1..MaxVertices : AddVertexOnEdge(idx)

SpecMove == Init /\ [][NextMove]_vars

\* positions a Bezier handle is dragged to
HandlePoints == {<<30, 30>>, <<120, 0>>}

Handles == {"c1", "c2"}

OnControlMoved(idx, handle, p) ==
    /\ idx \in 1..Len(edges)
    /\ edges[idx].type = "BEZIER"
    /\ Commit(on_control_moved(Polygon, idx, handle, p))
    /\ Returned("on_control_moved", "None", FALSE)

\* dragging the handles of Bezier edges
NextDrag ==
    \/ ncalls < MaxDragCalls /\ \E idx \in 1..MaxVertices, h \in Handles, p \in HandlePoints : OnControlMoved(idx, h, p)
    \/ ncalls < MaxDragCalls /\ \E idx \in 1..MaxVertices, t \in EdgeTypes : ConvertEdge(idx, t)
    \/ ncalls < MaxDragCalls /\ \E v \in VertexIds, c \in ContinuityTypes : ApplyContinuityToVertex(v, c)
    \/ ncalls < MaxDragCalls /\ \E idx \in 1..MaxVertices, ch \in ConstraintChoices : ApplyConstraintToEdge(idx, ch)

SpecDrag == Init /\ [][NextDrag]_vars

\* structural edits between drags of vertices and of handles
NextReshape ==
    \/ ncalls < MaxConstraintCalls /\ \E idx \in 1..MaxVertices : AddVertexOnEdge(idx)
    \/ ncalls < MaxConstraintCalls /\ \E v \in VertexIds : DeleteVertex(v)
    \/ ncalls < MaxConstraintCalls /\ \E idx \in 1..MaxVertices, t \in EdgeTypes : ConvertEdge(idx, t)
    \/ ncalls < MaxConstraintCalls /\ \E v \in VertexIds, p \in MovePoints : OnVertexMoved(v, p)
    \/ ncalls < MaxConstraintCalls /\ \E idx \in 1..MaxVertices, h \in Handles, p \in HandlePoints : OnControlMoved(idx, h, p)

SpecReshape == Init /\ [][NextReshape]_vars

\* _enforce_edge_constraint on its own.  on_vertex_moved calls it when the
\* dragged vertex v1 has just been put somewhere, so the edge may carry any
\* constraint and its endpoints may be anywhere, also in the same place.
EnforceLengths == {0, 1, 7, 40}

EnforceChoices ==
    {<<"NONE", NoValue>>, <<"VERTICAL", NoValue>>, <<"DIAGONAL_45", NoValue>>}
    \cup {<<"FIXED_LENGTH", L>> : L \in EnforceLengths}

Offsets == {-MaxOffset, -7, -1, 0, 1, 7, MaxOffset}

InitEnforce ==
    /\ vertices = InitialVertices
    /\ \E ch \in EnforceChoices :
           edges = [i \in 1..3 |->
                       IF i = 1
                       THEN [Edge(1, 2) EXCEPT !.constraint_type = ch[1],
                                               !.constraint_value = ch[2]]
                       ELSE Edge(InitialVertices[i], InitialVertices[CycNext(i, 3)])]
    /\ \E dx \in Offsets, dy \in Offsets :
           pos = [v \in VertexIds |->
                     IF v = 2 THEN <<InitialPositions[1][1] + dx, InitialPositions[1][2] + dy>>
                     ELSE IF v <= 3 THEN InitialPositions[v] ELSE <<0, 0>>]
    /\ cont = [v \in VertexIds |-> NewContinuity]
    /\ edges_dict = SyncedDict(edges)
    /\ last_continuity_warning = FALSE
    /\ call = [op |-> "__init__", ret |-> "None", enforced |-> FALSE, pixels |-> <<>>, tangent |-> NoPoint, arc |-> <<>>]
    /\ ncalls = 0

EnforceEdgeConstraint(v1, v2) ==
    \E r \in {_enforce_edge_constraint(Polygon, v1, v2)} :
        /\ Commit(r.P)
        /\ Returned("_enforce_edge_constraint",
                    IF r.go THEN "True" ELSE "False", FALSE)

\* the calls of _enforce_edge_constraint come in a row, from the start
NextEnforce ==
    \/ ncalls < MaxEnforceCalls /\ call.op # "apply_constraint_to_edge" /\ EnforceEdgeConstraint(1, 2)
    \/ ncalls < MaxEnforceCalls /\ \E ch \in EnforceChoices : ApplyConstraintToEdge(1, ch)

SpecEnforce == InitEnforce /\ [][NextEnforce]_vars

\* a polygon whose first two edges are Beziers that meet in vertex 2, with
\* handles where earlier drags have left them; one of the places is the
\* vertex itself
PrevHandles == {<<34, -5>>, <<30, 30>>, <<50, -10>>}

NextHandles == {<<100, 7>>, <<80, -40>>, <<50, -10>>}

InitSmooth ==
    /\ vertices = InitialVertices
    /\ \E c2 \in PrevHandles, c1 \in NextHandles :
           edges = <<Bezier(1, 2, <<17, -1>>, c2),
                     Bezier(2, 3, c1, <<150, 23>>),
                     Edge(3, 1)>>
    /\ pos = [v \in VertexIds |-> IF v <= 3 THEN InitialPositions[v] ELSE <<0, 0>>]
    /\ cont = [v \in VertexIds |-> NewContinuity]
    /\ edges_dict = SyncedDict(edges)
    /\ last_continuity_warning = FALSE
    /\ call = [op |-> "__init__", ret |-> "None", enforced |-> FALSE, pixels |-> <<>>, tangent |-> NoPoint, arc |-> <<>>]
    /\ ncalls = 0

NextSmooth ==
    \/ ncalls < MaxSmoothCalls /\ \E v \in VertexIds, c \in ContinuityTypes : ApplyContinuityToVertex(v, c)
    \/ ncalls < MaxSmoothCalls /\ \E v \in VertexIds, p \in MovePoints : OnVertexMoved(v, p)
    \/ ncalls < MaxSmoothCalls /\ \E idx \in 1..MaxVertices, h \in Handles, p \in HandlePoints : OnControlMoved(idx, h, p)

SpecSmooth == InitSmooth /\ [][NextSmooth]_vars

(***************************************************************************)
(* Drawing a line: algorithms.bresenham                                    *)
(***************************************************************************)
\* a variant that leaves the endpoints in the order given
NeverSwap(x0, x1) == FALSE

\* "if x0 > x1": the endpoints are swapped so that the loop runs upwards
MustSwap(x0, x1) == x0 > x1

\* "for x in range(x0, x1 + 1)": the pixels from x on
RECURSIVE PixelsFrom(_, _, _, _, _, _, _, _)
PixelsFrom(x, x1, y, err, dx, dy, ystep, steep) ==
    IF x > x1 THEN <<>>
    ELSE <<IF steep THEN <<y, x>> ELSE <<x, y>>>>
         \o (IF err - dy < 0
             THEN PixelsFrom(x + 1, x1, y + ystep, err - dy + dx, dx, dy, ystep, steep)
             ELSE PixelsFrom(x + 1, x1, y, err - dy, dx, dy, ystep, steep))

\* the loop for endpoints (a0, b0), (a1, b1) given along the major axis
BresenhamAlong(a0, b0, a1, b1, steep) ==
    IF MustSwap(a0, a1)
    THEN PixelsFrom(a1, a0, b1, (a0 - a1) \div 2, a0 - a1, Abs(b0 - b1),
                    IF b1 < b0 THEN 1 ELSE -1, steep)
    ELSE PixelsFrom(a0, a1, b0, (a1 - a0) \div 2, a1 - a0, Abs(b1 - b0),
                    IF b0 < b1 THEN 1 ELSE -1, steep)

\* bresenham
bresenham(x0, y0, x1, y1) ==
    IF Abs(y1 - y0) > Abs(x1 - x0)
    THEN BresenhamAlong(y0, x0, y1, x1, TRUE)
    ELSE BresenhamAlong(x0, y0, x1, y1, FALSE)

\* the pixel coordinates BresenhamLineEdgeItem.update_edge hands over: the
\* rounded endpoints of the first edge, anywhere in a square
GridPoints == {<<x, y>> : x \in -MaxGrid..MaxGrid, y \in -MaxGrid..MaxGrid}

InitBresenham ==
    /\ vertices = InitialVertices
    /\ edges = [i \in 1..3 |-> Edge(InitialVertices[i], InitialVertices[CycNext(i, 3)])]
    /\ \E p1 \in GridPoints, p2 \in GridPoints :
           pos = [v \in VertexIds |->
                     IF v = 1 THEN p1 ELSE IF v = 2 THEN p2
                     ELSE IF v = 3 THEN InitialPositions[3] ELSE <<0, 0>>]
    /\ cont = [v \in VertexIds |-> NewContinuity]
    /\ edges_dict = SyncedDict(edges)
    /\ last_continuity_warning = FALSE
    /\ call = [op |-> "__init__", ret |-> "None", enforced |-> FALSE, pixels |-> <<>>, tangent |-> NoPoint, arc |-> <<>>]
    /\ ncalls = 0

\* one call of bresenham from the position of vertex a to that of vertex b
Bresenham(a, b) ==
    /\ call' = [op |-> "bresenham", ret |-> "list", enforced |-> FALSE,
                pixels |-> bresenham(pos[a][1], pos[a][2], pos[b][1], pos[b][2]),
                tangent |-> NoPoint, arc |-> <<>>]
    /\ ncalls' = ncalls + 1
    /\ UNCHANGED <<vertices, edges, pos, cont, edges_dict, last_continuity_warning>>

NextBresenham ==
    \/ ncalls < MaxDrawCalls /\ Bresenham(1, 2)
    \/ ncalls < MaxDrawCalls /\ Bresenham(2, 1)

SpecBresenham == InitBresenham /\ [][NextBresenham]_vars

(***************************************************************************)
(* The context menu of a vertex                                            *)
(***************************************************************************)
\* the methods PolygonItem defines; the adjacency method is defined as
\* adjacent_edges_of_vertex
PolygonItemAttributes ==
    {"__init__", "boundingRect", "shape", "to_parent", "paint",
     "_setup_childitems", "_rebuild_childitems", "_replace_edge_at_index",
     "convert_edge", "_sync_edges_dict", "_edge_between", "mousePressEvent",
     "mouseMoveEvent", "mouseReleaseEvent", "EdgeItemFactory", "on_vertex_moved",
     "_enforce_edge_constraint", "adjacent_edges_of_vertex",
     "_project_direction_to_constraint", "_arc_tangent_at_vertex",
     "neighbour_tangent_for_arc", "apply_continuity_to_vertex",
     "enforce_vertex_continuity_from_vertex",
     "enforce_vertex_continuity_from_control", "add_vertex_on_edge",
     "delete_vertex", "apply_constraint_to_edge", "redraw_with_new_mode",
     "_enforce_all_constraints_and_continuity"}

\* hasattr(parent, name)
hasattr(name) == name \in PolygonItemAttributes

\* the 'allowed' table for the types t1, t2 of the edges before and after
AllowedFor(t1, t2) ==
    LET has_bez == t1 = "BEZIER" \/ t2 = "BEZIER"
        has_arc == t1 = "ARC" \/ t2 = "ARC"
        has_line_only == t1 = "LINE" /\ t2 = "LINE"
    IN  IF has_line_only THEN {}
        ELSE IF has_arc THEN {"G0", "G1"}
        ELSE IF has_bez THEN {"G0", "G1", "C1"}
        ELSE {"G0"}

\* VertexItem.contextMenuEvent: the continuity choices the menu of a vertex
\* holds; prev_edge and next_edge stay None unless the parent has an
\* attribute _adjacent_edges_of_vertex
contextMenuEvent(P, vertex) ==
    LET adj == IF hasattr("_adjacent_edges_of_vertex")
               THEN adjacent_edges_of_vertex(P, vertex)
               ELSE <<NoEdge, NoEdge>>
    IN  IF adj[1] # NoEdge /\ adj[2] # NoEdge
        THEN AllowedFor(P.edges[adj[1]].type, P.edges[adj[2]].type)
        ELSE {}

(***************************************************************************)
(* The arc solver: geometry.neighbour_tangent and                          *)
(* geometry.compute_arc_geometry_for_edge                                  *)
(***************************************************************************)
\* a variant of the direction of a Bezier that follows the arc: from the
\* handle towards the vertex
AgainstNextBezier(V, c) == Sub(V, c)

\* "vertex.x - ne.c2.x, vertex.y - ne.c2.y": the direction in which the
\* Bezier before the arc arrives at the vertex
AlongPrevBezier(V, c) == Sub(V, c)

\* "ne.c1.x - vertex.x, ne.c1.y - vertex.y": the direction in which the
\* Bezier after the arc leaves the vertex
AlongNextBezier(V, c) == Sub(c, V)

\* the unit vector of d, or None
UnitOf(d) == unit(d[1], d[2])

\* "return u_out if u_b is None else u_b": the bisector of two unit vectors
Bisector(u_in, u_out) ==
    LET u_b == unit(u_in[1] + u_out[1], u_in[2] + u_out[2])
    IN  IF u_b = NoPoint THEN u_out ELSE u_b

\* neighbour_tangent(edges, idx, current_edge, vertex, at_v1) for
\* current_edge = edges[idx] and vertex its v1 (at_v1) or its v2, as both
\* callers pass them: the unit tangent at the vertex from the neighbouring
\* edge, or None
neighbour_tangent(P, idx, at_v1) ==
    LET es == P.edges
        n_edges == Len(es)
        e == es[idx]
    IN  IF at_v1
        THEN LET ne == es[CycPrev(idx, n_edges)]
                 vertex == e.v1
                 V == P.pos[vertex]
                 u_in == IF ne.v2 = vertex THEN UnitOf(Sub(V, P.pos[ne.v1]))
                         ELSE UnitOf(Sub(V, P.pos[ne.v2]))
                 u_out == UnitOf(Sub(P.pos[e.v2], V))
                 along == IF ne.v2 = vertex THEN Sub(V, P.pos[ne.v1])
                          ELSE Sub(P.pos[ne.v2], V)
             IN  IF /\ ne.type = "ARC"
                    /\ P.cont[vertex] = "G1"
                    /\ u_in # NoPoint
                    /\ u_out # NoPoint
                 THEN Bisector(u_in, u_out)
                 ELSE IF ne.type = "BEZIER" THEN UnitOf(AlongPrevBezier(V, ne.c2))
                 ELSE UnitOf(along)
        ELSE LET ne == es[CycNext(idx, n_edges)]
                 vertex == e.v2
                 V == P.pos[vertex]
                 u_in == UnitOf(Sub(V, P.pos[e.v1]))
                 u_out == IF ne.v1 = vertex THEN UnitOf(Sub(P.pos[ne.v2], V))
                          ELSE UnitOf(Sub(P.pos[ne.v1], V))
                 along == IF ne.v1 = vertex THEN Sub(P.pos[ne.v2], V)
                          ELSE Sub(V, P.pos[ne.v1])
             IN  IF /\ ne.type = "ARC"
                    /\ P.cont[vertex] = "G1"
                    /\ u_in # NoPoint
                    /\ u_out # NoPoint
                 THEN Bisector(u_in, u_out)
                 ELSE IF ne.type = "BEZIER" THEN UnitOf(AlongNextBezier(V, ne.c1))
                 ELSE UnitOf(along)

\* twice the point p: centres are kept doubled so that a midpoint is exact
Twice(p) == <<2 * p[1], 2 * p[2]>>

\* a variant of the default centre: the arc's first endpoint
FirstEnd2(p1, p2) == Twice(p1)

\* "Mx = (x1 + x2) * 0.5; My = (y1 + y2) * 0.5", doubled
Midpoint2(p1, p2) == Add(p1, p2)

\* a variant of the choice of the honoured endpoint: v2 whenever it asks
LastHonouredEnd(g1_v1, g1_v2) ==
    IF g1_v2 THEN "v2" ELSE IF g1_v1 THEN "v1" ELSE "none"

\* "if g1_v1 and g1_v2: g1_v2 = False" and "if g1_v1: ... else: ...": the
\* endpoint whose tangent the arc honours
HonouredEnd(g1_v1, g1_v2) ==
    IF g1_v1 THEN "v1" ELSE IF g1_v2 THEN "v2" ELSE "none"

\* math.hypot of a vector that may be too long to square
LongHypot(x, y) ==
    LET m == Max(Abs(x), Abs(y))
        k == (m \div 10000) + 1
    IN  IF m <= 20000 THEN Hypot(x, y)
        ELSE k * Hypot(RoundDiv(x, k), RoundDiv(y, k))

\* "math.atan2(y - Cy, x - Cx)": an angle is kept as the vector it is the
\* angle of, from the doubled centre C2 to the doubled point
AngleFrom(C2, p) == Sub(Twice(p), C2)

\* the angle 0.0
ZeroAngle == <<1, 0>>

\* the returned tuple (Cx, Cy, R, a_start, a_end, prefer_ccw) with the centre
\* and the radius doubled; a_end = a1 + sweep is kept as what determines it:
\* the angles of v1 and of v2 and the direction of the sweep
ArcGeometry(C2, R2, p1, p2, prefer_ccw) ==
    <<C2, R2, AngleFrom(C2, p1), <<AngleFrom(C2, p1), AngleFrom(C2, p2), prefer_ccw>>, prefer_ccw>>

\* "If one endpoint requests G1, adjust center to match desired tangent":
\* the centre is where the normal to t at Pt meets the bisector of the
\* chord; the semicircle on the chord is kept when t is None or the two
\* lines are parallel
ArcThrough(p1, p2, Pt, chord_u, chord_len, t) ==
    LET M2 == Midpoint2(p1, p2)
        nc == rot90_ccw(chord_u)
        nt == rot90_ccw(t)
        m2 == Sub(M2, Twice(Pt))
        det == nt[1] * (-nc[2]) - nt[2] * (-nc[1])
        s2num == m2[1] * (-nc[2]) - m2[2] * (-nc[1])
        C2 == <<2 * Pt[1] + RoundDiv(s2num * nt[1], det),
                2 * Pt[2] + RoundDiv(s2num * nt[2], det)>>
        r2 == Sub(Twice(Pt), C2)
    IN  IF t # NoPoint /\ det # 0
        THEN ArcGeometry(C2, LongHypot(r2[1], r2[2]), p1, p2, PrefersCcw(UnitOf(r2), t))
        ELSE ArcGeometry(M2, chord_len, p1, p2, TRUE)

\* compute_arc_geometry_for_edge(edges, idx, arc_edge) for
\* arc_edge = edges[idx]
compute_arc_geometry_for_edge(P, idx) ==
    LET arc_edge == P.edges[idx]
        p1 == P.pos[arc_edge.v1]
        p2 == P.pos[arc_edge.v2]
        chord_u == unit(p2[1] - p1[1], p2[2] - p1[2])
        chord_len == Hypot(p2[1] - p1[1], p2[2] - p1[2])
        g1_v1 == P.cont[arc_edge.v1] = "G1"
        g1_v2 == P.cont[arc_edge.v2] = "G1"
        end == HonouredEnd(g1_v1, g1_v2)
    IN  IF chord_u = NoPoint
        THEN <<Midpoint2(p1, p2), chord_len, ZeroAngle, <<ZeroAngle, ZeroAngle, TRUE>>, TRUE>>
        ELSE IF end = "v1"
        THEN ArcThrough(p1, p2, p1, chord_u, chord_len, neighbour_tangent(P, idx, TRUE))
        ELSE IF end = "v2"
        THEN ArcThrough(p1, p2, p2, chord_u, chord_len, neighbour_tangent(P, idx, FALSE))
        ELSE ArcGeometry(Midpoint2(p1, p2), chord_len, p1, p2, TRUE)

\* The arc solver on its own: a triangle whose second edge is the arc, with
\* the neighbours, the continuity of the arc's endpoints and the positions
\* drawn from small sets.  Coinciding vertices make degenerate chords.
ArcIndex == 2

FirstPoints == {<<0, 0>>, <<-5, 5>>, <<3, -7>>}

LastPoints == {<<0, 0>>, <<10, 0>>, <<6, 8>>}

PrevHandlePoints == {<<-4, -3>>, <<0, -6>>}

NextHandlePoints == {<<14, 3>>, <<6, 1>>}

ArcContinuities == {"G0", "G1"}

\* an edge of the given type from v1 to v2; a Bezier has the given handles
TypedEdge(v1, v2, type, c1, c2) ==
    IF type = "BEZIER" THEN [Edge(v1, v2) EXCEPT !.type = type, !.c1 = c1, !.c2 = c2]
    ELSE [Edge(v1, v2) EXCEPT !.type = type]

InitArc ==
    /\ vertices = InitialVertices
    /\ \E t1 \in EdgeTypes, t3 \in EdgeTypes, h1 \in PrevHandlePoints, h3 \in NextHandlePoints :
           edges = << TypedEdge(1, 2, t1, Sub(h1, <<1, 1>>), h1),
                      TypedEdge(2, 3, "ARC", NoPoint, NoPoint),
                      TypedEdge(3, 1, t3, h3, Add(h3, <<1, 1>>)) >>
    /\ \E a \in FirstPoints, b \in LastPoints :
           pos = [v \in VertexIds |-> IF v = 1 THEN a ELSE IF v = 3 THEN b ELSE <<0, 0>>]
    /\ \E c2 \in ArcContinuities, c3 \in ArcContinuities :
           cont = [v \in VertexIds |-> IF v = 2 THEN c2 ELSE IF v = 3 THEN c3 ELSE NewContinuity]
    /\ edges_dict = SyncedDict(edges)
    /\ last_continuity_warning = FALSE
    /\ call = [op |-> "__init__", ret |-> "None", enforced |-> FALSE, pixels |-> <<>>, tangent |-> NoPoint, arc |-> <<>>]
    /\ ncalls = 0

\* one call of neighbour_tangent for the arc, at its v1 or at its v2
NeighbourTangent(at_v1) ==
    /\ call' = [op |-> "neighbour_tangent",
                ret |-> IF neighbour_tangent(Polygon, ArcIndex, at_v1) = NoPoint THEN "None" ELSE "tuple",
                enforced |-> FALSE, pixels |-> <<>>,
                tangent |-> neighbour_tangent(Polygon, ArcIndex, at_v1), arc |-> <<>>]
    /\ ncalls' = ncalls + 1
    /\ UNCHANGED <<vertices, edges, pos, cont, edges_dict, last_continuity_warning>>

\* one call of compute_arc_geometry_for_edge for the arc
ComputeArcGeometryForEdge ==
    /\ call' = [op |-> "compute_arc_geometry_for_edge", ret |-> "tuple",
                enforced |-> FALSE, pixels |-> <<>>, tangent |-> NoPoint,
                arc |-> compute_arc_geometry_for_edge(Polygon, ArcIndex)]
    /\ ncalls' = ncalls + 1
    /\ UNCHANGED <<vertices, edges, pos, cont, edges_dict, last_continuity_warning>>

NextArc ==
    \/ ncalls < MaxArcCalls /\ NeighbourTangent(TRUE)
    \/ ncalls < MaxArcCalls /\ NeighbourTangent(FALSE)
    \/ ncalls < MaxArcCalls /\ ComputeArcGeometryForEdge

SpecArc == InitArc /\ [][NextArc]_vars

\* dragging vertices of a polygon whose edges may all be constrained
NextWalk ==
    \/ ncalls < MaxWalkCalls /\ \E idx \in 1..MaxVertices, ch \in ConstraintChoices : ApplyConstraintToEdge(idx, ch)
    \/ ncalls < MaxWalkCalls /\ \E v \in VertexIds, p \in MovePoints : OnVertexMoved(v, p)

SpecWalk == Init /\ [][NextWalk]_vars

NextMutate ==
    \/ ncalls < MaxConstraintCalls /\ \E idx \in 1..MaxVertices, ch \in ConstraintChoices : ApplyConstraintToEdge(idx, ch)
    \/ ncalls < MaxConstraintCalls /\ \E v \in VertexIds, c \in ContinuityTypes : ApplyContinuityToVertex(v, c)
    \/ ncalls < MaxConstraintCalls /\ \E v \in VertexIds : DeleteVertex(v)
    \/ ncalls < MaxConstraintCalls /\ \E idx \in 1..MaxVertices, t \in EdgeTypes : ConvertEdge(idx, t)
    \/ ncalls < MaxConstraintCalls /\ \E idx \in 1..MaxVertices : AddVertexOnEdge(idx)

SpecMutate == Init /\ [][NextMutate]_vars

(***************************************************************************)
(* Properties                                                              *)
(***************************************************************************)
\* the positions of the edges that have vertex v as an endpoint
EdgesAt(v) == {i \in 1..Len(edges) : edges[i].v1 = v \/ edges[i].v2 = v}

\* C1: edges[i] connects vertices[i] and vertices[(i+1) mod n], for every i,
\* in every state reached by add_vertex_on_edge, delete_vertex, convert_edge.
C1_EdgesParallelToVertices ==
    /\ Len(edges) = Len(vertices)
    /\ \A i \in 1..Len(edges) :
           {edges[i].v1, edges[i].v2}
               = {vertices[i], vertices[CycNext(i, Len(vertices))]}

\* what one call may do to the two lists
C2_CountsInStep ==
    /\ Len(vertices') = Len(edges')
    /\ Len(vertices') >= 3
    /\ (call'.op = "delete_vertex" /\ Len(vertices) = 3)
           => (vertices' = vertices /\ edges' = edges)
    /\ (call'.op = "delete_vertex" /\ Len(vertices) > 3)
           => /\ Len(vertices') = Len(vertices) - 1
              /\ Len(edges') = Len(edges) - 1
    /\ call'.op = "add_vertex_on_edge"
           => /\ Len(vertices') = Len(vertices) + 1
              /\ Len(edges') = Len(edges) + 1

\* C2: the two lists always have the same length, at least 3; delete_vertex
\* on a polygon of 3 vertices removes nothing; every other delete_vertex
\* takes exactly one vertex and one edge away, and every add_vertex_on_edge
\* adds exactly one of each.
C2_Counts ==
    /\ [](Len(vertices) = Len(edges) /\ Len(vertices) >= 3)
    /\ [][C2_CountsInStep]_vars

\* an accepted delete_vertex: the second call took an original vertex out of
\* the polygon of four that the first call made
C2_DeletedFromFour ==
    /\ call.op = "delete_vertex"
    /\ ncalls = 2
    /\ Len(vertices) = 3
    /\ InPolygon(4)

\* C3: a vertex whose two adjacent edges are both Line has continuity G0.
C3_LineLineIsG0 ==
    \A i \in 1..Len(vertices) :
        (\A e \in EdgesAt(vertices[i]) : edges[e].type = "LINE")
            => cont[vertices[i]] = "G0"

\* C4: no vertex with continuity C1 is an endpoint of an Arc edge.
C4_NoC1AtArc ==
    \A i \in 1..Len(edges) :
        edges[i].type = "ARC"
            => cont[edges[i].v1] # "C1" /\ cont[edges[i].v2] # "C1"

\* an Arc whose endpoint has G1 next to a Bezier, in a polygon that also
\* has a C1 vertex: convert_edge fell back from C1 to G1 at the arc
C4_ArcBesideBezier ==
    \E i \in 1..Len(edges), j \in 1..Len(edges), k \in 1..Len(vertices) :
        /\ edges[i].type = "ARC"
        /\ edges[j].type = "BEZIER"
        /\ edges[i].v2 = edges[j].v1
        /\ cont[edges[i].v2] = "G1"
        /\ cont[vertices[k]] = "C1"

\* C5: no Arc edge has both of its endpoints at G1.
C5_OneG1PerArc ==
    \A i \in 1..Len(edges) :
        edges[i].type = "ARC"
            => ~(cont[edges[i].v1] = "G1" /\ cont[edges[i].v2] = "G1")

\* G1 was just refused with the warning, at an Arc whose other endpoint
\* has G1
C5_SecondG1Refused ==
    /\ call.op = "apply_continuity_to_vertex"
    /\ call.ret = "False"
    /\ last_continuity_warning
    /\ \E i \in 1..Len(edges) :
           /\ edges[i].type = "ARC"
           /\ (cont[edges[i].v1] = "G1") # (cont[edges[i].v2] = "G1")

\* the other endpoint of edge e, seen from v
OtherEnd(e, v) == IF edges[e].v1 = v THEN edges[e].v2 ELSE edges[e].v1

\* the three cases in which apply_continuity_to_vertex(v, c) is to say False
Refuses(v, c) ==
    \/ \A e \in EdgesAt(v) : edges[e].type = "LINE"
    \/ c = "C1" /\ \E e \in EdgesAt(v) : edges[e].type = "ARC"
    \/ /\ c = "G1"
       /\ \E e \in EdgesAt(v) :
              edges[e].type = "ARC" /\ cont[OtherEnd(e, v)] = "G1"

\* what one apply_continuity_to_vertex call returns and leaves
C6_ReturnValueInStep ==
    \A v \in VertexIds, c \in ContinuityTypes :
        (call'.op = "apply_continuity_to_vertex" /\ ApplyContinuityToVertex(v, c))
            => /\ (call'.ret = "False") <=> Refuses(v, c)
               /\ (call'.ret = "True") <=> ~Refuses(v, c)
               /\ call'.ret = "True" => cont'[v] = c

\* C6: apply_continuity_to_vertex(v, c) returns False exactly when both
\* adjacent edges are Line, or c is C1 and an adjacent edge is an Arc, or c is
\* G1 and an adjacent Arc has its other endpoint at G1; otherwise it returns
\* True and the vertex has continuity c.
C6_ReturnValue == [][C6_ReturnValueInStep]_vars

\* G0 was just refused at a vertex between two Lines while another vertex
\* of the polygon has taken a continuity
C6_G0RefusedBetweenLines ==
    /\ call.op = "apply_continuity_to_vertex"
    /\ call.ret = "False"
    /\ ~last_continuity_warning
    /\ \A i \in 1..Len(edges) : edges[i].type # "ARC"
    /\ \E i \in 1..Len(vertices) : cont[vertices[i]] = "C1"
    /\ \E i \in 1..Len(vertices) :
           /\ cont[vertices[i]] = "G0"
           /\ \A e \in EdgesAt(vertices[i]) : edges[e].type = "LINE"

\* what a refused call must leave alone: the vertex list, the edge list with
\* the types, constraints and control points of its edges, the continuity
\* flags and the vertex positions
Graph == <<vertices, edges, cont, pos>>

\* one refused call
C7_RefusedInStep ==
    (\/ call'.ret = "False"
     \/ call'.op = "delete_vertex" /\ Len(vertices) = 3)
        => Graph' = Graph

\* C7: a refused call (apply_constraint_to_edge or apply_continuity_to_vertex
\* returning False, delete_vertex on a polygon of three vertices) leaves the
\* vertex list, the edge list, the edge types, the constraints, the
\* continuity flags and every vertex and control point position unchanged.
C7_RefusedChangesNothing == [][C7_RefusedInStep]_vars

\* VERTICAL was just refused on an edge whose neighbour is VERTICAL, in a
\* polygon that earlier calls have changed
C7_VerticalRefused ==
    /\ call.op = "apply_constraint_to_edge"
    /\ call.ret = "False"
    /\ \E i \in 1..Len(edges) : edges[i].constraint_type = "VERTICAL"
    /\ \E i \in 1..Len(edges) : edges[i].type # "LINE"

\* one accepted apply_continuity_to_vertex call, as stated
C8_EnforcedInStep ==
    \A v \in VertexIds, c \in ContinuityTypes :
        (call'.ret = "True" /\ ApplyContinuityToVertex(v, c))
            => cont'[v] = c /\ call'.enforced

\* C8 as stated: whenever apply_continuity_to_vertex(v, c) accepts, the
\* vertex has continuity c and enforce_vertex_continuity_from_vertex(v) has
\* run, whatever the two adjacent edges are.
C8_AlwaysEnforced == [][C8_EnforcedInStep]_vars

\* one accepted apply_continuity_to_vertex call, as the code has it
C8_EnforcedAtBezierInStep ==
    \A v \in VertexIds, c \in ContinuityTypes :
        (call'.ret = "True" /\ ApplyContinuityToVertex(v, c))
            => /\ cont'[v] = c
               /\ call'.enforced <=> \E e \in EdgesAt(v) : edges[e].type = "BEZIER"
               /\ ~call'.enforced => edges' = edges

\* C8 as the code has it: whenever apply_continuity_to_vertex(v, c) accepts,
\* the vertex has continuity c, and enforce_vertex_continuity_from_vertex(v)
\* has run exactly when an adjacent edge is a Bezier; between an Arc and a
\* Line or two Arcs the flag is set and nothing is enforced, so no edge
\* changes.
C8_EnforcedAtBezier == [][C8_EnforcedAtBezierInStep]_vars

\* G1 was just accepted without enforcement: the vertex lies between an Arc
\* and a Line or between two Arcs
C8_AcceptedAtArcOnly ==
    /\ call.op = "apply_continuity_to_vertex"
    /\ call.ret = "True"
    /\ ~call.enforced
    /\ \E i \in 1..Len(vertices) :
           /\ cont[vertices[i]] = "G1"
           /\ \E e \in EdgesAt(vertices[i]) : edges[e].type = "ARC"
           /\ \A e \in EdgesAt(vertices[i]) : edges[e].type # "BEZIER"

\* two different edges that share a vertex are both VERTICAL
AdjacentVerticals ==
    \E i \in 1..Len(edges), j \in 1..Len(edges) :
        /\ i # j
        /\ {edges[i].v1, edges[i].v2} \cap {edges[j].v1, edges[j].v2} # {}
        /\ edges[i].constraint_type = "VERTICAL"
        /\ edges[j].constraint_type = "VERTICAL"

\* one apply_constraint_to_edge(e, VERTICAL) call beside a VERTICAL edge
C9_RefusedInStep ==
    \A idx \in 1..MaxVertices :
        (/\ call'.op = "apply_constraint_to_edge"
         /\ idx <= Len(edges)
         /\ \E j \in 1..Len(edges) :
                /\ j # idx
                /\ {edges[j].v1, edges[j].v2} \cap {edges[idx].v1, edges[idx].v2} # {}
                /\ edges[j].constraint_type = "VERTICAL"
         /\ ApplyConstraintToEdge(idx, <<"VERTICAL", NoValue>>))
            => call'.ret = "False" /\ Graph' = Graph

\* C9: apply_constraint_to_edge(e, VERTICAL) returns False and changes
\* nothing when the previous or the next edge is VERTICAL; hence no two
\* cyclically adjacent edges are ever both VERTICAL.
C9_NoAdjacentVerticals == [](~AdjacentVerticals) /\ [][C9_RefusedInStep]_vars

\* VERTICAL was just refused in a polygon of four vertices that has a
\* VERTICAL edge and, not next to it, room for a second one
C9_SecondVerticalRefused ==
    /\ call.op = "apply_constraint_to_edge"
    /\ call.ret = "False"
    /\ Len(edges) = 4
    /\ Cardinality({i \in 1..Len(edges) : edges[i].constraint_type = "VERTICAL"}) = 1

\* the edge joining vertices a and b carries a constraint
Constrained(a, b) ==
    \E e \in 1..Len(edges) :
        {edges[e].v1, edges[e].v2} = {a, b} /\ edges[e].constraint_type # "NONE"

\* the position k steps to the right (k >= 0) or to the left (k <= 0 given
\* as its size) of position i in the cyclic vertex list
StepsRight(i, k) == ((i - 1 + k) % Len(vertices)) + 1

StepsLeft(i, k) == ((i - 1 + Len(vertices) - k) % Len(vertices)) + 1

\* the vertices met walking from position i before the first unconstrained
\* edge, to the right and to the left
ReachedRight(i) ==
    {vertices[StepsRight(i, k)] : k \in {k \in 1..(Len(vertices) - 1) :
        \A m \in 0..(k - 1) :
            Constrained(vertices[StepsRight(i, m)], vertices[StepsRight(i, m + 1)])}}

ReachedLeft(i) ==
    {vertices[StepsLeft(i, k)] : k \in {k \in 1..(Len(vertices) - 1) :
        \A m \in 0..(k - 1) :
            Constrained(vertices[StepsLeft(i, m)], vertices[StepsLeft(i, m + 1)])}}

\* one on_vertex_moved call
C10_FrameInStep ==
    \A v \in VertexIds, p \in MovePoints :
        (/\ call'.op = "on_vertex_moved"
         /\ \E e \in 1..Len(edges) : edges[e].constraint_type = "NONE"
         /\ OnVertexMoved(v, p))
            => /\ pos'[v] = p
               /\ \A w \in VertexIds :
                      (/\ w # v
                       /\ w \notin ReachedRight(IndexOf(vertices, v))
                       /\ w \notin ReachedLeft(IndexOf(vertices, v)))
                          => pos'[w] = pos[w]

\* C10: in a polygon with an unconstrained edge, on_vertex_moved(v, p) puts v
\* at p and changes the position of no vertex beyond the first unconstrained
\* edge met walking right from v, nor beyond the first met walking left;
\* this includes the continuity pass at the end of the handler.
C10_MoveStopsAtUnconstrained == [][C10_FrameInStep]_vars

\* vertex 1 was just dragged to (60, 80): the VERTICAL edge from it took
\* vertex 2 along, and vertex 3, behind the unconstrained second edge,
\* stayed where the initial triangle has it
C10_StoppedAtSecondEdge ==
    /\ call.op = "on_vertex_moved"
    /\ vertices = InitialVertices
    /\ pos[1] = <<60, 80>>
    /\ edges[1].constraint_type = "VERTICAL"
    /\ pos[2][1] = 60
    /\ edges[2].constraint_type = "NONE"
    /\ pos[3] = InitialPositions[3]

\* a walk makes at most n-1 calls and never moves the origin
WalkIsShort(P, idx, rightwards) ==
    \E w \in {Walk(P, idx, idx, rightwards)} :
        /\ Len(w) <= Len(P.vertices) - 1
        /\ \A k \in 1..Len(w) : w[k] # P.vertices[idx]

\* one call of on_vertex_moved
C11_WalksInStep ==
    \A v \in VertexIds, p \in MovePoints :
        (call'.op = "on_vertex_moved" /\ InPolygon(v)) =>
            \A r \in {on_vertex_moved(Polygon, v, p)} :
                Commit(r) =>
                    \E moved \in {[Polygon EXCEPT !.pos[v] = p]},
                       idx \in {IndexOf(vertices, v)} :
                        /\ WalkIsShort(moved, idx, TRUE)
                        /\ WalkIsShort(Propagate(moved, idx, idx, TRUE), idx, FALSE)
                        /\ pos'[v] = p

\* C11: on_vertex_moved comes to an end whatever the constraints are: each
\* of its two walks calls _enforce_edge_constraint at most n-1 times, never
\* with the dragged vertex as the vertex to move, and the dragged vertex is
\* at the requested position when the call returns.
C11_MoveTerminates == [][C11_WalksInStep]_vars

\* a vertex has been dragged in a polygon in which every edge is constrained
C11_MovedAllConstrained ==
    /\ call.op = "on_vertex_moved"
    /\ \A i \in 1..Len(edges) : edges[i].constraint_type # "NONE"

\* the polygon when on_control_moved has written the dragged handle
HandlePlaced(idx, handle, p) ==
    IF handle = "c1" THEN SetC1(Polygon, idx, p) ELSE SetC2(Polygon, idx, p)

\* the vertex whose continuity a handle of edges[idx] drives
DrivenVertex(idx, handle) ==
    IF handle = "c1" THEN edges[idx].v1 ELSE edges[idx].v2

\* the geometry of enforce_vertex_continuity_from_control for that handle
DrivenBy(P, idx, handle) ==
    DriveAt(P, DrivenVertex(idx, handle),
            IF handle = "c1" THEN "next" ELSE "prev",
            adjacent_edges_of_vertex(P, DrivenVertex(idx, handle)))

\* the handlers one handle move may enter, in order
OneHandleMove ==
    {<<"on_control_moved", "enforce_vertex_continuity_from_control">>,
     <<"on_control_moved", "enforce_vertex_continuity_from_control",
       "on_vertex_moved">>}

\* one call of on_control_moved
C13_OneHopInStep ==
    \A idx \in 1..MaxVertices, h \in Handles, p \in HandlePoints :
        (call'.op = "on_control_moved" /\ OnControlMoved(idx, h, p)) =>
            \E r \in {on_control_moved(Polygon, idx, h, p)},
               d \in {DrivenBy(HandlePlaced(idx, h, p), idx, h)} :
                /\ r.calls \in OneHandleMove
                /\ ~r.updating_from_parent
                /\ Len(d.moved_vertices) <= 1
                /\ Cardinality({v \in VertexIds : d.P.pos[v] # pos[v]}) <= 1

\* C13: one handle move repositions at most one vertex by continuity and
\* calls on_vertex_moved at most once; the nested on_vertex_moved enters
\* neither enforce_vertex_continuity_from_control nor on_control_moved, and
\* no setPos made by the program enters on_vertex_moved or on_control_moved.
C13_OneHop == [][C13_OneHopInStep]_vars

\* a handle was dragged next to a Line, whose far end followed
C13_LineEndFollowed ==
    /\ call.op = "on_control_moved"
    /\ ncalls = 2
    /\ \E v \in 1..3 : pos[v] # InitialPositions[v]

\* the endpoint pair p is that of edge e, in one of the two orders
JoinedBy(p, e) == p = <<e.v1, e.v2>> \/ p = <<e.v2, e.v1>>

\* C12: the table that _edge_between reads is fresh in every state in which
\* on_vertex_moved or a handle drag can start: both orders of the endpoints
\* of every edge of polygon.edges lead to that edge, and no key is left of
\* an edge that was removed or replaced.
C12_EdgesDictFresh ==
    /\ \A i \in 1..Len(edges) :
           \A p \in {<<edges[i].v1, edges[i].v2>>, <<edges[i].v2, edges[i].v1>>} :
               p \in DOMAIN edges_dict /\ edges_dict[p] = i
    /\ \A p \in DOMAIN edges_dict :
           \E i \in 1..Len(edges) : JoinedBy(p, edges[i])

\* a drag that followed an insertion and a deletion
C12_DraggedAfterEdits ==
    /\ call.op \in {"on_vertex_moved", "on_control_moved"}
    /\ ncalls = 3
    /\ Len(vertices) = 3
    /\ vertices # InitialVertices

\* one call of convert_edge
C14_ConvertedInStep ==
    \A idx \in 1..MaxVertices, t \in EdgeTypes :
        (call'.op = "convert_edge" /\ idx \in 1..Len(edges)) =>
            \A r \in {convert_edge(Polygon, idx, t)} :
                Commit(r) =>
                    /\ Len(edges') = Len(edges)
                    /\ edges'[idx].v1 = edges[idx].v1
                    /\ edges'[idx].v2 = edges[idx].v2
                    /\ edges'[idx].type = t
                    /\ edges'[idx].constraint_type = "NONE"
                    /\ edges'[idx].constraint_value = NoValue
                    /\ t = "ARC" => cont'[edges[idx].v1] = "G0" /\ cont'[edges[idx].v2] = "G0"

\* C14: convert_edge(e, t) puts an edge of type t with the endpoints of e
\* and without constraint at the index of e, whatever constraint e had; for
\* t = ARC both endpoints have continuity G0 when the call returns.
C14_ConvertResets == [][C14_ConvertedInStep]_vars

\* the first edge was given a constraint, which moved its second endpoint,
\* and was then converted
C14_ConstrainedConverted ==
    /\ call.op = "convert_edge"
    /\ ncalls = 2
    /\ pos[2] # InitialPositions[2]
    /\ \E t \in EdgeTypes : edges[1] = [Edge(1, 2) EXCEPT !.type = t]

\* m is the rounded midpoint of a and b
IsMidpoint(m, a, b) ==
    /\ Abs(2 * m[1] - (a[1] + b[1])) <= 1
    /\ Abs(2 * m[2] - (a[2] + b[2])) <= 1

\* one call of add_vertex_on_edge, on the edge e at position idx, when the
\* first endpoint of e is at position i of the vertex list
C15_SplitInStep ==
    \A idx \in 1..MaxVertices :
        (call'.op = "add_vertex_on_edge" /\ AddVertexOnEdge(idx)) =>
            \E e \in {edges[idx]}, i \in {IndexOf(vertices, edges[idx].v1)},
               m \in VertexIds :
                /\ ~InPolygon(m)
                /\ vertices' = SubSeq(vertices, 1, i) \o <<m>>
                                   \o SubSeq(vertices, i + 1, Len(vertices))
                /\ IsMidpoint(pos'[m], pos[e.v1], pos[e.v2])
                /\ edges' = SubSeq(edges, 1, idx - 1)
                                \o <<Edge(e.v1, m), Edge(m, e.v2)>>
                                \o SubSeq(edges, idx + 1, Len(edges))

\* one accepted call of delete_vertex, for the vertex at position i
C15_MergedInStep ==
    \A v \in VertexIds :
        (call'.op = "delete_vertex" /\ Len(vertices) > MinVertices /\ DeleteVertex(v)) =>
            \E i \in {IndexOf(vertices, v)}, k \in 1..Len(edges') :
                /\ edges'[k] = Edge(vertices[CycPrev(i, Len(vertices))],
                                    vertices[CycNext(i, Len(vertices))])
                /\ SubSeq(edges', 1, k - 1) \o SubSeq(edges', k + 1, Len(edges'))
                       = SelectSeq(edges, LAMBDA e : e.v1 # v /\ e.v2 # v)
                /\ Len(edges') = Len(edges) - 1

\* C15: add_vertex_on_edge(e) puts Line(e.v1, m), Line(m, e.v2) in the place
\* of e, for a new vertex m at the midpoint that comes right after e.v1 in
\* the vertex list; an accepted delete_vertex(v) puts one unconstrained
\* Line(prev(v), next(v)) in the place of the two edges at v, whatever these
\* edges were.
C15_EditsMakeLines == [][C15_SplitInStep /\ C15_MergedInStep]_vars

\* the vertex added on the first edge was deleted again after the edge from
\* it to vertex 2 had been given a constraint, which moved vertex 2
C15_ConstrainedMerged ==
    /\ call.op = "delete_vertex"
    /\ ncalls = 3
    /\ vertices = InitialVertices
    /\ pos[2] # InitialPositions[2]
    /\ \A i \in 1..Len(edges) : edges[i] = Edge(edges[i].v1, edges[i].v2)

\* a second call in a row
C16_SecondCallInStep ==
    (call.op = "_enforce_edge_constraint" /\ call'.op = "_enforce_edge_constraint") =>
        /\ pos' = pos
        /\ call'.ret = call.ret

\* C16: _enforce_edge_constraint is idempotent: a second call in a row
\* leaves v2 where the first call put it and returns what the first call
\* returned, for every constraint and every pair of endpoint positions.
C16_Idempotent == [][C16_SecondCallInStep]_vars

\* two calls in a row on an edge of FIXED_LENGTH 0: the first one has put
\* v2 on v1, the second one found it there
C16_EnforcedTwiceAtZero ==
    /\ ncalls = MaxEnforceCalls
    /\ call.op = "_enforce_edge_constraint"
    /\ call.ret = "True"
    /\ edges[1].constraint_type = "FIXED_LENGTH"
    /\ edges[1].constraint_value = 0
    /\ pos[2] = pos[1]

\* new lies on the ray from p1 through old at distance L, to the nearest
\* point of the integer grid: within one unit of the ray, on the side of old,
\* and within one unit of the length L
OnRayAt(p1, old, new, L) ==
    LET dx == old[1] - p1[1]
        dy == old[2] - p1[2]
        nx == new[1] - p1[1]
        ny == new[2] - p1[2]
        cross == dx * ny - dy * nx
    IN  /\ cross * cross <= dx * dx + dy * dy
        /\ dx * nx + dy * ny >= 0
        /\ LengthScaled(nx, ny) - L * UnitScale \in -UnitScale..UnitScale

C17_FixedLengthInStep ==
    (/\ call'.op = "_enforce_edge_constraint"
     /\ edges[1].constraint_type = "FIXED_LENGTH") =>
        /\ \A v \in VertexIds : v # 2 => pos'[v] = pos[v]
        /\ call'.ret = "True"
        /\ IF pos[2] = pos[1]
           THEN pos'[2] = <<pos[1][1] + edges[1].constraint_value, pos[1][2]>>
           ELSE OnRayAt(pos[1], pos[2], pos'[2], edges[1].constraint_value)

\* C17: for an edge with FIXED_LENGTH(L), _enforce_edge_constraint(v1, v2)
\* leaves v1 unchanged and puts v2 on the ray from v1 through the old v2 at
\* distance L; when v2 lies on v1 it puts v2 at (v1.x + L, v1.y); it returns
\* True.
C17_FixedLength == [][C17_FixedLengthInStep]_vars

\* the edge had both ends apart and its FIXED_LENGTH was enforced
C17_ScaledToLength ==
    /\ call.op = "_enforce_edge_constraint"
    /\ call.ret = "True"
    /\ edges[1].constraint_type = "FIXED_LENGTH"
    /\ edges[1].constraint_value = 7
    /\ pos[2] # <<pos[1][1] + 7, pos[1][2]>>
    /\ pos[2][2] # pos[1][2]

\* |dx| == |dy| with the signs of the old offset, a zero counting as positive
OnDiagonalOf(p1, old, new) ==
    LET sx == IF old[1] - p1[1] >= 0 THEN 1 ELSE -1
        sy == IF old[2] - p1[2] >= 0 THEN 1 ELSE -1
        nx == new[1] - p1[1]
        ny == new[2] - p1[2]
    IN  /\ sx * nx = sy * ny
        /\ sx * nx >= 0

\* the length of the edge is what it was, to the nearest point of the grid
LengthKept(p1, old, new) ==
    LengthScaled(new[1] - p1[1], new[2] - p1[2])
      - LengthScaled(old[1] - p1[1], old[2] - p1[2]) \in -UnitScale..UnitScale

\* the step of length 1.0 along the (+, +) diagonal, on the integer grid
UnitStep(p1) ==
    <<p1[1] + RoundDiv(InvSqrt2, UnitScale), p1[2] + RoundDiv(InvSqrt2, UnitScale)>>

\* the step is a call that has just put edge 1 on a diagonal
DiagonalEnforced ==
    \/ call'.op = "_enforce_edge_constraint" /\ edges[1].constraint_type = "DIAGONAL_45"
    \/ /\ call'.op = "apply_constraint_to_edge"
       /\ call'.ret = "True"
       /\ edges'[1].constraint_type = "DIAGONAL_45"

C18_DiagonalInStep ==
    DiagonalEnforced =>
        /\ pos'[1] = pos[1]
        /\ OnDiagonalOf(pos[1], pos[2], pos'[2])
        /\ IF pos[2] = pos[1]
           THEN pos'[2] = UnitStep(pos[1])
           ELSE LengthKept(pos[1], pos[2], pos'[2])

\* C18: for an edge with DIAGONAL_45, after _enforce_edge_constraint(v1, v2)
\* the offset v2 - v1 has |dx| == |dy| with the signs of the old dx and dy
\* (zero counts as positive); the length |v2 - v1| is what it was before the
\* call when the ends were apart, and v2 is put one step of length 1 away
\* on the (+, +) diagonal when v2 lay on v1; apply_constraint_to_edge(e,
\* DIAGONAL_45) applies the same rule.
C18_Diagonal == [][C18_DiagonalInStep]_vars

\* the statement without the exception: the length is kept in every call
C18_LengthAlwaysKept ==
    [][DiagonalEnforced => LengthKept(pos[1], pos[2], pos'[2])]_vars

\* a slanted edge was put on its diagonal
C18_SlantedEnforced ==
    /\ call.op \in {"_enforce_edge_constraint", "apply_constraint_to_edge"}
    /\ call.ret = "True"
    /\ edges[1].constraint_type = "DIAGONAL_45"
    /\ pos[2] = <<pos[1][1] - 22, pos[1][2] + 22>>

\* vertex v lies between two Bezier edges
BetweenBeziers(v) ==
    LET adj == adjacent_edges_of_vertex(Polygon, v)
    IN  /\ adj[1] # NoEdge
        /\ adj[2] # NoEdge
        /\ edges[adj[1]].type = "BEZIER"
        /\ edges[adj[2]].type = "BEZIER"

\* in the step next.c1 has become 2 V - P for P the prev.c2 of before, which
\* is still there; V is read after the step
MirroredFromPrev(v) ==
    LET adj == adjacent_edges_of_vertex(Polygon, v)
        P == edges[adj[1]].c2
    IN  /\ edges'[adj[2]].c1 = <<2 * pos'[v][1] - P[1], 2 * pos'[v][2] - P[2]>>
        /\ edges'[adj[1]].c2 = P

\* apply_continuity_to_vertex(v, C1) runs the enforcement on the handles as
\* they are
C19_AppliedInStep ==
    \A v \in VertexIds :
        (/\ call'.op = "apply_continuity_to_vertex"
         /\ call'.ret = "True"
         /\ BetweenBeziers(v)
         /\ ApplyContinuityToVertex(v, "C1")) =>
            /\ call'.enforced
            /\ MirroredFromPrev(v)
            /\ pos' = pos

\* on_vertex_moved runs it at every vertex that carries C1, with V where the
\* move has put it
C19_MovedInStep ==
    \A v \in VertexIds :
        (/\ call'.op = "on_vertex_moved"
         /\ InPolygon(v)
         /\ cont[v] = "C1"
         /\ BetweenBeziers(v)) =>
            MirroredFromPrev(v)

\* C19: for a vertex V with continuity C1 between two Bezier edges, after
\* enforce_vertex_continuity_from_vertex(V) next.c1 == 2*V - P where P is
\* prev.c2 as it was before the call, prev.c2 is still P, and no vertex
\* position is changed by it.
C19_MirrorsPrevHandle == [][C19_AppliedInStep /\ C19_MovedInStep]_vars

\* a C1 vertex between two Beziers was dragged and next.c1 followed it
C19_DraggedSmoothVertex ==
    /\ call.op = "on_vertex_moved"
    /\ cont[2] = "C1"
    /\ pos[2] = <<60, 80>>
    /\ edges[1].c2 = <<30, 30>>
    /\ edges[2].c1 = <<90, 130>>

\* one call of on_control_moved on a handle at a C1 vertex between two
\* Beziers: the handle stays at p, the other one is its reflection
C20_DraggedInStep ==
    \A idx \in 1..MaxVertices, h \in Handles, p \in HandlePoints :
        (/\ call'.op = "on_control_moved"
         /\ idx \in 1..Len(edges)
         /\ cont[DrivenVertex(idx, h)] = "C1"
         /\ BetweenBeziers(DrivenVertex(idx, h))
         /\ OnControlMoved(idx, h, p)) =>
            \E adj \in {adjacent_edges_of_vertex(Polygon, DrivenVertex(idx, h))},
               V \in {pos[DrivenVertex(idx, h)]} :
                /\ pos' = pos
                /\ on_control_moved(Polygon, idx, h, p).calls =
                       <<"on_control_moved", "enforce_vertex_continuity_from_control">>
                /\ IF h = "c2"
                   THEN /\ edges'[adj[1]].c2 = p
                        /\ edges'[adj[2]].c1 = <<2 * V[1] - p[1], 2 * V[2] - p[2]>>
                   ELSE /\ edges'[adj[2]].c1 = p
                        /\ edges'[adj[1]].c2 = <<2 * V[1] - p[1], 2 * V[2] - p[2]>>

\* C20: for a vertex with continuity C1 between two Bezier edges,
\* enforce_vertex_continuity_from_control keeps the dragged handle where the
\* user put it and sets the other handle to its point reflection through
\* the vertex (moved = 'prev': next.c1 == 2*vertex - prev.c2; moved = 'next':
\* prev.c2 == 2*vertex - next.c1); no vertex is moved and on_vertex_moved is
\* not called.
C20_ReflectsDraggedHandle == [][C20_DraggedInStep]_vars

\* next.c1 was dragged at the C1 vertex 2 and prev.c2 went to its reflection
C20_NextHandleDragged ==
    /\ call.op = "on_control_moved"
    /\ cont[2] = "C1"
    /\ pos[2] = InitialPositions[2]
    /\ edges[2].c1 = <<120, 0>>
    /\ edges[1].c2 = <<-20, -20>>

\* the pixels of a line between p and q, in one direction or the other
LineOfPixels(pixels, p, q) ==
    /\ Len(pixels) = Max(Abs(q[1] - p[1]), Abs(q[2] - p[2])) + 1
    /\ \/ pixels[1] = p /\ pixels[Len(pixels)] = q
       \/ pixels[1] = q /\ pixels[Len(pixels)] = p
    /\ \A k \in 1..(Len(pixels) - 1) :
           /\ Abs(pixels[k + 1][1] - pixels[k][1]) <= 1
           /\ Abs(pixels[k + 1][2] - pixels[k][2]) <= 1

C30_DrawnInStep ==
    /\ call'.op = "bresenham" => LineOfPixels(call'.pixels, pos[1], pos[2])
    /\ (call.op = "bresenham" /\ call'.op = "bresenham") => call'.pixels = call.pixels

\* C30: bresenham(x0, y0, x1, y1) returns max(|x1-x0|, |y1-y0|) + 1 pixels,
\* with the two endpoints first and last in one order or the other and
\* neighbouring pixels at most 1 apart in each coordinate, and a call with
\* the endpoints exchanged returns the same list.
C30_Bresenham == [][C30_DrawnInStep]_vars

\* a steep line was drawn towards smaller y, in both directions
C30_SteepDrawnTwice ==
    /\ call.op = "bresenham"
    /\ ncalls = MaxDrawCalls
    /\ pos[1] = <<1, 3>>
    /\ pos[2] = <<-1, -3>>
    /\ call.pixels = <<<<-1, -3>>, <<-1, -2>>, <<0, -1>>, <<0, 0>>, <<0, 1>>, <<1, 2>>, <<1, 3>>>>

\* the number of edges that end at v, and that start at v
EndingAt(v) == Cardinality({i \in 1..Len(edges) : edges[i].v2 = v})

StartingAt(v) == Cardinality({i \in 1..Len(edges) : edges[i].v1 = v})

\* C28: after any sequence of add_vertex_on_edge, delete_vertex and
\* convert_edge calls the edge list is a consistently oriented cycle over
\* the vertex list: edges[i].v2 is edges[(i+1) mod n].v1, every vertex is the
\* v2 of exactly one edge and the v1 of exactly one edge, and
\* adjacent_edges_of_vertex(v) returns the edge ending at v as prev and the
\* edge starting at v as next, both found by the scan over the edges.
C28_OrientedCycle ==
    /\ Len(edges) = Len(vertices)
    /\ \A i \in 1..Len(edges) : edges[i].v2 = edges[CycNext(i, Len(edges))].v1
    /\ \A k \in 1..Len(vertices) :
           /\ EndingAt(vertices[k]) = 1
           /\ StartingAt(vertices[k]) = 1
           /\ \E adj \in {adjacent_edges_of_vertex(Polygon, vertices[k])} :
                  /\ adj[1] # NoEdge
                  /\ adj[2] # NoEdge
                  /\ adj[1] = FirstIndex(edges, LAMBDA e : e.v2 = vertices[k])
                  /\ adj[2] = FirstIndex(edges, LAMBDA e : e.v1 = vertices[k])
                  /\ edges[adj[1]].v2 = vertices[k]
                  /\ edges[adj[2]].v1 = vertices[k]

\* the first vertex was deleted, so the edge list is rotated against the
\* vertex list, and an edge was split and another converted afterwards
C28_RotatedThenEdited ==
    /\ ncalls = MaxCalls
    /\ Len(vertices) = 4
    /\ edges[1].v1 # vertices[1]
    /\ \E i \in 1..Len(edges) : edges[i].type # "LINE"

\* C29: the context menu of a vertex offers the continuity choices that the
\* adjacent edge types allow: G0 and G1 when an adjacent edge is a Bezier or
\* an Arc, C1 exactly when an adjacent edge is a Bezier and none is an Arc,
\* and no continuity choice only when both adjacent edges are Lines.
C29_MenuOffersAllowed ==
    \A k \in 1..Len(vertices) :
        \E adj \in {adjacent_edges_of_vertex(Polygon, vertices[k])} :
            \E t1 \in {edges[adj[1]].type}, t2 \in {edges[adj[2]].type},
               offered \in {contextMenuEvent(Polygon, vertices[k])} :
                /\ (t1 # "LINE" \/ t2 # "LINE") => {"G0", "G1"} \subseteq offered
                /\ "C1" \in offered <=>
                       ("BEZIER" \in {t1, t2} /\ "ARC" \notin {t1, t2})
                /\ offered = {} => (t1 = "LINE" /\ t2 = "LINE")

\* edge e satisfies its constraint at the positions ps; lengths are compared
\* to the nearest point of the integer grid
Satisfies(e, ps) ==
    LET dx == ps[e.v2][1] - ps[e.v1][1]
        dy == ps[e.v2][2] - ps[e.v1][2]
    IN  CASE e.constraint_type = "VERTICAL" -> dx = 0
          [] e.constraint_type = "DIAGONAL_45" -> Abs(dx) = Abs(dy)
          [] e.constraint_type = "FIXED_LENGTH" ->
                 LengthScaled(dx, dy) - e.constraint_value * UnitScale
                     \in -UnitScale..UnitScale
          [] OTHER -> TRUE

AllSatisfied(es, ps) == \A i \in 1..Len(es) : Satisfies(es[i], ps)

\* C27: on_vertex_moved(v, p) re-establishes every constraint: when it
\* returns, every constrained edge of the polygon satisfies its constraint,
\* for every constraint configuration, also when every edge is constrained.
C27_MoveSatisfiesAll ==
    [][call'.op = "on_vertex_moved" => AllSatisfied(edges', pos')]_vars

\* C26: apply_constraint_to_edge preserves the constraints of the other
\* edges: if every constrained edge satisfies its constraint before the
\* call, then after an accepted call every constrained edge still does,
\* also the edge that follows e and shares the moved endpoint e.v2.
C26_ApplyKeepsOthers ==
    [][(/\ call'.op = "apply_constraint_to_edge"
        /\ call'.ret = "True"
        /\ AllSatisfied(edges, pos)) => AllSatisfied(edges', pos')]_vars


\* the end of edge e that is not v
FarEnd(e, v) == IF e.v1 = v THEN e.v2 ELSE e.v1

\* the C1 equation of vertex v for the adjacency it has
C1Equation(v) ==
    LET adj == adjacent_edges_of_vertex(Polygon, v)
        prev == edges[adj[1]]
        next == edges[adj[2]]
        V == pos[v]
    IN  (adj[1] # NoEdge /\ adj[2] # NoEdge) =>
            CASE prev.type = "BEZIER" /\ next.type = "BEZIER" ->
                     Sub(next.c1, V) = Sub(V, prev.c2)
              [] prev.type = "BEZIER" /\ next.type = "LINE" ->
                     Sub(V, prev.c2) = Sub(pos[FarEnd(next, v)], V)
              [] prev.type = "LINE" /\ next.type = "BEZIER" ->
                     Sub(next.c1, V) = Sub(V, pos[FarEnd(prev, v)])
              [] OTHER -> TRUE

\* C25: after every completed public operation every vertex with continuity
\* C1 satisfies the C1 equation of its adjacency: next.c1 - V = V - prev.c2
\* between two Beziers, V - prev.c2 = far - V for Bezier-Line and
\* next.c1 - V = V - far for Line-Bezier.
C25_C1AfterEveryOperation ==
    \A i \in 1..Len(vertices) :
        cont[vertices[i]] = "C1" => C1Equation(vertices[i])

\* the arc of the arc solver's polygon has two G0 endpoints that differ
PlainArc ==
    /\ cont[edges[ArcIndex].v1] = "G0"
    /\ cont[edges[ArcIndex].v2] = "G0"
    /\ pos[edges[ArcIndex].v1] # pos[edges[ArcIndex].v2]

\* the doubled centre, the doubled radius and the orientation of the
\* semicircle on the chord from p1 to p2
IsSemicircle(arc, p1, p2) ==
    /\ arc[1] = Add(p1, p2)
    /\ arc[2] = Hypot(p2[1] - p1[1], p2[2] - p1[2])
    /\ arc[5] = TRUE

\* C21: for an Arc whose endpoints are both G0 and whose chord is not
\* degenerate, compute_arc_geometry_for_edge returns the midpoint of v1 and
\* v2 as the centre, half the chord length as the radius and CCW, whatever
\* the neighbouring edges are; for v1 = (0,0), v2 = (10,0) the centre is
\* (5,0) and the radius 5 (both kept doubled here).
C21_Semicircle ==
    [][(call'.op = "compute_arc_geometry_for_edge" /\ PlainArc) =>
           /\ IsSemicircle(call'.arc, pos[edges[ArcIndex].v1], pos[edges[ArcIndex].v2])
           /\ (pos[2] = <<0, 0>> /\ pos[3] = <<10, 0>>) =>
                  (call'.arc[1] = Twice(<<5, 0>>) /\ call'.arc[2] = 2 * 5)]_vars

\* the semicircle on (0,0)-(10,0) was computed between two Bezier edges
C21_SemicircleBetweenBeziers ==
    /\ call.op = "compute_arc_geometry_for_edge"
    /\ PlainArc
    /\ edges[1].type = "BEZIER"
    /\ edges[3].type = "BEZIER"
    /\ pos[3] = <<10, 0>>
    /\ call.arc[1] = <<10, 0>>
    /\ call.arc[2] = 10
    /\ call.arc[5]

\* both endpoints of the arc ask for G1
BothG1 ==
    /\ cont[edges[ArcIndex].v1] = "G1"
    /\ cont[edges[ArcIndex].v2] = "G1"

\* the polygon with the continuity of the arc's v2 replaced by G0
WithV2AtG0 == [Polygon EXCEPT !.cont[edges[ArcIndex].v2] = "G0"]

\* the polygon with v2 at G0 and a Line after the arc
WithLineAfter ==
    [WithV2AtG0 EXCEPT !.edges[CycNext(ArcIndex, Len(edges))].type = "LINE"]

\* C22: the result of compute_arc_geometry_for_edge on an Arc whose v1 and
\* v2 are both G1 equals its result on the same state with v2's continuity
\* replaced by G0; the continuity of v2 and the edge after the arc have no
\* influence on centre, radius, angles or orientation.
C22_OnlyV1Honoured ==
    [][(call'.op = "compute_arc_geometry_for_edge" /\ BothG1) =>
           /\ call'.arc = compute_arc_geometry_for_edge(WithV2AtG0, ArcIndex)
           /\ call'.arc = compute_arc_geometry_for_edge(WithLineAfter, ArcIndex)]_vars

\* an arc with two G1 endpoints between two Beziers got a centre off the
\* midpoint of its chord, and the Bezier after it asks for another one
C22_SolvedWithBothG1 ==
    /\ call.op = "compute_arc_geometry_for_edge"
    /\ BothG1
    /\ edges[1].type = "BEZIER"
    /\ edges[3].type = "BEZIER"
    /\ call.arc[1] # Add(pos[2], pos[3])
    /\ call.arc # compute_arc_geometry_for_edge([Polygon EXCEPT !.cont[edges[ArcIndex].v1] = "G0"], ArcIndex)

\* the edge before the arc (at_v1) or after it
NeighbourOfArc(at_v1) ==
    IF at_v1 THEN edges[CycPrev(ArcIndex, Len(edges))]
    ELSE edges[CycNext(ArcIndex, Len(edges))]

\* the vertex the arc shares with that neighbour
SharedVertex(at_v1) == IF at_v1 THEN edges[ArcIndex].v1 ELSE edges[ArcIndex].v2

\* the neighbour's control point nearer the shared vertex
NearerHandle(at_v1) == IF at_v1 THEN NeighbourOfArc(at_v1).c2 ELSE NeighbourOfArc(at_v1).c1

\* a call of neighbour_tangent at that end of the arc, next to a Bezier
TangentFromBezier(at_v1) ==
    /\ call'.op = "neighbour_tangent"
    /\ NeighbourTangent(at_v1)
    /\ NeighbourOfArc(at_v1).type = "BEZIER"

\* at either end of the arc, the tangent taken from a neighbouring Bezier is
\* the unit vector of (vertex - c) for c the nearer control point
C23_TowardsVertexAtBothEnds ==
    [][\A at_v1 \in BOOLEAN :
           TangentFromBezier(at_v1) =>
               call'.tangent = UnitOf(Sub(pos[SharedVertex(at_v1)], NearerHandle(at_v1)))]_vars

\* C23: when the edge neighbouring an arc at the shared vertex is a Bezier,
\* neighbour_tangent returns the unit vector along the direction in which
\* the boundary is traversed: of (vertex - c2) for at_v1 = True (previous
\* edge) and of (c1 - vertex) for at_v1 = False (next edge).
C23_AlongTraversal ==
    [][/\ TangentFromBezier(TRUE) =>
              call'.tangent = UnitOf(Sub(pos[SharedVertex(TRUE)], NearerHandle(TRUE)))
       /\ TangentFromBezier(FALSE) =>
              call'.tangent = UnitOf(Sub(NearerHandle(FALSE), pos[SharedVertex(FALSE)]))]_vars

\* the tangent at v2 = (10,0) was taken from the Bezier after the arc, whose
\* c1 is (14,3): it points from the vertex to the handle
C23_TangentLeavesAlongNext ==
    /\ call.op = "neighbour_tangent"
    /\ edges[3].type = "BEZIER"
    /\ edges[1].type = "LINE"
    /\ pos[1] = <<-5, 5>>
    /\ pos[3] = <<10, 0>>
    /\ edges[3].c1 = <<14, 3>>
    /\ call.tangent = <<80, 60>>

\* the incoming direction at the shared vertex: along the chord of the
\* neighbouring arc (at_v1) or of the arc itself, towards the vertex
IncomingAt(at_v1) ==
    IF at_v1 THEN UnitOf(Sub(pos[SharedVertex(at_v1)], pos[NeighbourOfArc(at_v1).v1]))
    ELSE UnitOf(Sub(pos[SharedVertex(at_v1)], pos[edges[ArcIndex].v1]))

\* the outgoing direction: along the other chord, away from the vertex
OutgoingAt(at_v1) ==
    IF at_v1 THEN UnitOf(Sub(pos[edges[ArcIndex].v2], pos[SharedVertex(at_v1)]))
    ELSE UnitOf(Sub(pos[NeighbourOfArc(at_v1).v2], pos[SharedVertex(at_v1)]))

\* a call of neighbour_tangent in the arc-arc G1 case
TangentBetweenArcs(at_v1) ==
    /\ call'.op = "neighbour_tangent"
    /\ NeighbourTangent(at_v1)
    /\ NeighbourOfArc(at_v1).type = "ARC"
    /\ cont[SharedVertex(at_v1)] = "G1"

\* C24: in the arc-arc G1 case of neighbour_tangent, when exactly one of
\* the incoming and the outgoing direction has near-zero length, the result
\* is the unit vector of the other, defined, direction, for at_v1 = True
\* and at_v1 = False alike, and not None.
C24_FallsBackToOther ==
    [][\A at_v1 \in BOOLEAN :
           TangentBetweenArcs(at_v1) =>
               /\ (IncomingAt(at_v1) = NoPoint /\ OutgoingAt(at_v1) # NoPoint) =>
                      call'.tangent = OutgoingAt(at_v1)
               /\ (OutgoingAt(at_v1) = NoPoint /\ IncomingAt(at_v1) # NoPoint) =>
                      call'.tangent = IncomingAt(at_v1)]_vars

====
